---- MODULE Spec2Model ----
(***************************************************************************)
(* A model of the OAuth account-linking subsystem of DjangoBlog            *)
(* (oauth/views.py, oauth/models.py, oauth/oauthmanager.py).               *)
(*                                                                         *)
(* Strings the code inspects character by character (URLs, signatures)     *)
(* are sequences of one-character strings.  Opaque values (e-mail          *)
(* addresses, nicknames, openids) are TLA+ strings.                        *)
(*                                                                         *)
(* The database is modelled at statement granularity under READ COMMITTED  *)
(* (Django's default on MySQL and PostgreSQL): every ORM statement         *)
(* outside transaction.atomic() is its own step and commits at once; the   *)
(* rows a transaction inserted stay invisible to the other requests until  *)
(* the step that commits.                                                  *)
(***************************************************************************)
EXTENDS Integers, Sequences, FiniteSets, TLC

----------------------------------------------------------------------------
(* Bounds of the model *)

\* requests started in one behaviour of a server with several workers
MaxRequests == 3
\* requests started in one behaviour of a server with a single worker
MaxSeqRequests == 4
\* seconds timezone.now() may advance in one behaviour (it is read with
\* second resolution)
MaxClock == 1
\* length of a signature string handed to emailconfirm
MaxSignLen == 2
\* largest identity id a confirmation link is checked for
MaxSignId == 6
\* largest identity id a link is signed for
MaxId == 16
\* callbacks started in one behaviour of the server with all providers enabled
MaxProvRequests == 3

----------------------------------------------------------------------------
(* Strings as sequences of characters *)

RECURSIVE StrUpTo(_, _)
\* every string over alphabet A of length at most n
StrUpTo(A, n) ==
    IF n = 0 THEN {<<>>}
    ELSE LET shorter == StrUpTo(A, n - 1)
         IN  shorter \cup {Append(s, c) : s \in shorter, c \in A}

StartsWith(s, pre) ==
    /\ Len(s) >= Len(pre)
    /\ SubSeq(s, 1, Len(pre)) = pre

Www == <<"w", "w", "w", ".">>

RECURSIVE ReplaceWww(_)
\* str.replace('www.', ''): every non-overlapping occurrence, left to right
ReplaceWww(s) ==
    IF s = <<>> THEN <<>>
    ELSE IF StartsWith(s, Www) THEN ReplaceWww(SubSeq(s, 5, Len(s)))
    ELSE <<s[1]>> \o ReplaceWww(Tail(s))

RECURSIVE UpTo(_, _)
\* the prefix of s before the first character that is in stop
UpTo(s, stop) ==
    IF s = <<>> \/ s[1] \in stop THEN <<>>
    ELSE <<s[1]>> \o UpTo(Tail(s), stop)

\* urlparse(url).netloc for a URL without scheme: what follows a leading
\* "//" up to the next "/", "?" or "#"
UrlNetloc(url) ==
    IF StartsWith(url, <<"/", "/">>)
    THEN UpTo(SubSeq(url, 3, Len(url)), {"/", "?", "#"})
    ELSE <<>>

LowerOf == [c \in {"A", "B", "C", "D", "E", "F"} |->
              CASE c = "A" -> "a" [] c = "B" -> "b" [] c = "C" -> "c"
                [] c = "D" -> "d" [] c = "E" -> "e" [] c = "F" -> "f"]

UpperOf == [c \in {"a", "b", "c", "d", "e", "f"} |->
              CASE c = "a" -> "A" [] c = "b" -> "B" [] c = "c" -> "C"
                [] c = "d" -> "D" [] c = "e" -> "E" [] c = "f" -> "F"]

\* str.upper()
StrUpper(s) == [i \in 1..Len(s) |-> IF s[i] \in DOMAIN UpperOf THEN UpperOf[s[i]] ELSE s[i]]

\* a letter without its case
FoldCase(ch) == IF ch \in DOMAIN LowerOf THEN LowerOf[ch] ELSE ch

Digits == <<"0", "1", "2", "3", "4", "5", "6", "7", "8", "9">>

RECURSIVE DecStr(_)
\* str(n) for a natural number n
DecStr(n) ==
    IF n < 10 THEN <<Digits[n + 1]>>
    ELSE DecStr(n \div 10) \o <<Digits[(n % 10) + 1]>>

----------------------------------------------------------------------------
(* Settings and helpers of djangoblog.utils *)

\* settings.SECRET_KEY
SECRET_KEY == <<"k", "9">>

\* get_current_site().domain
SiteDomain == <<"a", ".", "a">>

HexDigits == <<"0", "1", "2", "3", "4", "5", "6", "7", "8", "9",
               "a", "b", "c", "d", "e", "f">>

CharCode(c) ==
    CASE c = "k" -> 107
      [] OTHER -> 47 + CHOOSE i \in 1..10 : Digits[i] = c

RECURSIVE HashFold(_, _)
HashFold(h, s) ==
    IF s = <<>> THEN h
    ELSE HashFold((h * 31 + CharCode(s[1])) % 256, Tail(s))

\* get_sha256(str): a deterministic digest in lower-case hexadecimal
\* (hashlib's hexdigest), here two hex digits wide; it is injective on
\* SECRET_KEY + str(id) + SECRET_KEY for the ids 1..17
get_sha256(s) ==
    LET h == HashFold(7, s)
    IN  <<HexDigits[(h \div 16) + 1], HexDigits[(h % 16) + 1]>>

----------------------------------------------------------------------------
(* Signed confirmation links (oauth/views.py) *)

\* get_sha256(settings.SECRET_KEY + str(id) + settings.SECRET_KEY), tabulated
\* for the ids on which the digest is injective
Digest == [id \in 1..MaxId |-> get_sha256(SECRET_KEY \o DecStr(id) \o SECRET_KEY)]

\* RequireEmailView.form_valid: the signature put into the mailed link
IssueSign(id) == Digest[id]

\* a check that only refuses the empty signature
SignatureOkNonEmpty(id, sign) == sign # <<>>

\* a check that compares the signature as it is written
SignatureOkExact(id, sign) ==
    /\ sign # <<>>
    /\ Digest[id] = sign

\* emailconfirm: the link passes both HttpResponseForbidden() checks
SignatureOk(id, sign) ==
    /\ sign # <<>>
    /\ StrUpper(Digest[id]) = StrUpper(sign)

----------------------------------------------------------------------------
(* Return path validation (oauth/views.py) *)

LoginUrls == { <<"/", "l", "o", "g", "i", "n", "/">>, <<"/", "l", "o", "g", "i", "n">> }

\* get_redirecturl(request); an absent next_url and an empty one are both <<>>
get_redirecturl(nexturl) ==
    IF nexturl = <<>> \/ nexturl \in LoginUrls THEN <<"/">>
    ELSE LET netloc == UrlNetloc(nexturl)
         IN  IF netloc # <<>> /\ ReplaceWww(netloc) # ReplaceWww(SiteDomain)
             THEN <<"/">>
             ELSE nexturl

\* reverse('oauth:require_email', kwargs={'oauthid': id})
RequireEmailUrl(id) == <<"/oauth/requireemail/">> \o DecStr(id) \o <<".html">>

\* reverse('oauth:bindsuccess', kwargs={'oauthid': id}) + '?type=' + type
BindSuccessUrl(id, type) ==
    <<"/oauth/bindsuccess/">> \o DecStr(id) \o <<".html", "?type=", type>>

\* reverse('oauth:email_confirm', kwargs={'id': id, 'sign': sign})
EmailConfirmUrl(id, sign) ==
    <<"/oauth/emailconfirm/">> \o DecStr(id) \o <<"/">> \o sign \o <<".html">>

----------------------------------------------------------------------------
(* Inputs of the model *)

\* the workers a server may run, each handling one request at a time; a
\* request is taken by the first idle worker
Workers == {1, 2}

\* providers with an enabled OAuthConfig row
EnabledTypes == {"weibo"}
\* values of the type query parameter ("" stands for a missing one)
TypeParams == {"weibo", "", "qq"}

NoEmail == "None"
Emails == {"e1", "e2"}
\* texts that are no e-mail address: a blank field, a text without domain
MalformedEmails == {"", "e1@"}
\* what a visitor may type into the form's email field
FormEmails == Emails \cup MalformedEmails
BlankNick == " "

\* what get_oauth_userinfo() returns for a provider account: an unsaved
\* OAuthUser carrying the provider's answer
ProviderProfiles ==
    { [openid |-> "o1", nickname |-> n, email |-> e] :
          n \in {"n1", "n2"}, e \in {NoEmail, "e1"} }
    \cup
    { [openid |-> "o2", nickname |-> "n1", email |-> e] : e \in {NoEmail, "e1", "e2"} }

\* the avatar and the raw profile that come with a display name
PictureOf(nick) == IF nick = "n1" THEN "pic1" ELSE "pic2"
MetadataOf(nick) == IF nick = "n1" THEN "meta1" ELSE "meta2"
\* the access token obtained in a callback that carries this display name
TokenOf(nick) == IF nick = "n1" THEN "tok1" ELSE "tok2"

OffSiteUrl == <<"/", "/", "a", ".", "w", "w", "w", ".", "a">>
\* values of the next_url query parameter
NextUrls == { <<>>, OffSiteUrl }

\* "djangoblog" + timezone.now().strftime('%y%m%d%I%M%S')
GenNames == <<"djangoblog0", "djangoblog1", "djangoblog2", "djangoblog3">>
GenName(t) == GenNames[t + 1]

\* str.strip() of a display name
Strip(nick) == IF nick = BlankNick THEN "" ELSE nick

----------------------------------------------------------------------------
(* State *)

VARIABLES
    workers,      \* the workers this server runs
    apps,         \* the types of the enabled OAuthConfig rows
    code,         \* the authorization code the provider issued last
    oauthusers,   \* table OAuthUser: the committed rows
    accounts,     \* table BlogUser (LocalAccount): the committed rows
    nextOAuthId,  \* auto-increment of OAuthUser.id
    nextUserId,   \* auto-increment of BlogUser.id
    outbox,       \* the messages handed to send_email
    nmail,        \* how many messages were handed to send_email
    clock,        \* timezone.now() in seconds, as last read
    pc,           \* per worker: where its request stands
    loc,          \* per worker: the local variables of the running view
    resp,         \* the response the last step sent: the worker that sent it,
                  \* its status and Location, the account that
                  \* login(request, author) logged the requester in as
                  \* (0 when the request logged nobody in), and the
                  \* warning the step logged
    nreq,         \* requests started so far
    sig_id, sig_sign, sig_pc, sig_accept,  \* one confirmation link check
    adp_type,     \* one login through an adapter: the provider,
    adp_rsp,      \* what its endpoints answer,
    adp_pc,       \* how far authorize got with the manager,
    adp_calls,    \* the outbound calls do_get / do_post made so far,
    adp_self,     \* and the manager's own access_token and openid
    configs,      \* the types of the OAuthConfig rows with is_enable set
    cache,        \* the cache entry of get_oauth_apps: its value and when it was set
    time,         \* the time, in units of 50 minutes
    disabled_at,  \* per type: when its configuration was last disabled
    answer,       \* what the last call of the registry returned
    url_in,       \* one call of get_authorization_url: the manager's configuration and the return path,
    url_pc,       \* whether it was made,
    url_out,      \* and the URL it returned
    rst_users,    \* password reset: the BlogUser rows with their password hashes,
    rst_codes,    \* per e-mail address the verification code in the cache and when it was set,
    rst_time,     \* the time, in units of 150 seconds,
    rst_mail,     \* the verification mail handed to send_email last,
    rst_resp      \* and the response to the last request

dbVars == <<oauthusers, accounts, nextOAuthId, nextUserId>>
linkVars == <<workers, apps, code, oauthusers, accounts, nextOAuthId, nextUserId, outbox,
              nmail, clock, pc, loc, resp, nreq>>
sigVars == <<sig_id, sig_sign, sig_pc, sig_accept>>
adpVars == <<adp_type, adp_rsp, adp_pc, adp_calls, adp_self>>
regVars == <<configs, cache, time, disabled_at, answer>>
urlVars == <<url_in, url_pc, url_out>>
rstVars == <<rst_users, rst_codes, rst_time, rst_mail, rst_resp>>
\* the variables no view of the linking state machine touches
sideVars == <<sigVars, adpVars, regVars, urlVars, rstVars>>
vars == <<workers, apps, code, oauthusers, accounts, nextOAuthId, nextUserId, outbox,
          nmail, clock, pc, loc, resp, nreq, sig_id, sig_sign, sig_pc, sig_accept,
          adp_type, adp_rsp, adp_pc, adp_calls, adp_self,
          configs, cache, time, disabled_at, answer,
          url_in, url_pc, url_out,
          rst_users, rst_codes, rst_time, rst_mail, rst_resp>>

\* an OAuthUser() that was never saved
NoUser == [id |-> 0, type |-> "", openid |-> "", nickname |-> "", token |-> "",
           picture |-> "", metadata |-> "", email |-> NoEmail, author_id |-> 0]

NoAccount == [id |-> 0, username |-> "", email |-> "", source |-> ""]

NoLocals == [op |-> "", user |-> NoUser, author |-> NoAccount, created |-> FALSE,
             nexturl |-> <<>>, profile_email |-> NoEmail, found |-> 0, link_id |-> 0,
             sign |-> <<>>]

NoResponse == [worker |-> 0, status |-> 0, location |-> <<>>, login |-> 0, log |-> ""]
Redirect(url) == [status |-> 302, location |-> url, login |-> 0]
LoginRedirect(url, account) == [status |-> 302, location |-> url, login |-> account]
Forbidden == [status |-> 403, location |-> <<>>, login |-> 0]
Rendered == [status |-> 200, location |-> <<>>, login |-> 0]
NotFound == [status |-> 404, location |-> <<>>, login |-> 0]
ServerError == [status |-> 500, location |-> <<>>, login |-> 0]

LinkInit ==
    /\ code = "c1"
    /\ oauthusers = {}
    /\ accounts = {}
    /\ nextOAuthId = 1
    /\ nextUserId = 1
    /\ outbox = {}
    /\ nmail = 0
    /\ clock = 0
    /\ pc = [c \in Workers |-> "idle"]
    /\ loc = [c \in Workers |-> NoLocals]
    /\ resp = NoResponse
    /\ nreq = 0

SigIdle ==
    /\ sig_id = 0
    /\ sig_sign = <<>>
    /\ sig_pc = "off"
    /\ sig_accept = FALSE

AdpIdle ==
    /\ adp_type = ""
    /\ adp_rsp = <<>>
    /\ adp_pc = "off"
    /\ adp_calls = <<>>
    /\ adp_self = <<>>

RegIdle ==
    /\ configs = {}
    /\ cache = <<>>
    /\ time = 0
    /\ disabled_at = <<>>
    /\ answer = <<>>

UrlIdle ==
    /\ url_in = <<>>
    /\ url_pc = "off"
    /\ url_out = <<>>

RstIdle ==
    /\ rst_users = {}
    /\ rst_codes = <<>>
    /\ rst_time = 0
    /\ rst_mail = <<>>
    /\ rst_resp = <<>>

\* nothing but the linking state machine runs
SideIdle == SigIdle /\ AdpIdle /\ RegIdle /\ UrlIdle /\ RstIdle

\* a server with two workers
Init == workers = Workers /\ apps = EnabledTypes /\ LinkInit /\ SideIdle

\* a server with one worker: requests are processed one at a time
SeqInit == workers = {1} /\ apps = EnabledTypes /\ LinkInit /\ SideIdle

----------------------------------------------------------------------------
(* The ORM *)

\* a lookup that never finds the stored identity (mutation of UsersBy)
UsersByNothing(type, openid) == {}

\* OAuthUser.objects.filter(type=type, openid=openid)
UsersBy(type, openid) == {u \in oauthusers : u.type = type /\ u.openid = openid}

\* OAuthUser.objects.filter(pk=id)
UsersById(id) == {u \in oauthusers : u.id = id}

\* get_user_model().objects.filter(id=id)
AccountsById(id) == {a \in accounts : a.id = id}

\* get_user_model().objects.filter(email=email)
AccountsByEmail(email) == {a \in accounts : a.email = email}

\* get_user_model().objects.filter(username=name)
AccountsByName(name) == {a \in accounts : a.username = name}

\* Model.save() of an OAuthUser object: INSERT when it has no id yet, else
\* UPDATE of every column of the row with that id
SaveUser(table, u, newid) ==
    IF u.id = 0
    THEN table \cup {[u EXCEPT !.id = newid]}
    ELSE {r \in table : r.id # u.id} \cup {u}

SavedId(u, newid) == IF u.id = 0 THEN newid ELSE u.id

\* the workers whose open transaction holds a freshly inserted BlogUser row
Creating == {c \in Workers : loc[c].created /\ pc[c] \in {"auth_link", "ec_link"}}

\* a new request starts on worker c
StartRequest(c) ==
    /\ c \in workers
    /\ pc[c] = "idle"
    /\ \A w \in workers : w < c => pc[w] # "idle"
    /\ nreq < (IF apps # EnabledTypes THEN MaxProvRequests
               ELSE IF workers = {1} THEN MaxSeqRequests ELSE MaxRequests)
    /\ nreq' = nreq + 1

\* worker c's request ends with response r after logging line
RespondLogged(c, r, line) ==
    /\ pc' = [pc EXCEPT ![c] = "idle"]
    /\ loc' = [loc EXCEPT ![c] = NoLocals]
    /\ resp' = [worker |-> c, status |-> r.status, location |-> r.location,
                login |-> r.login, log |-> line]
    /\ UNCHANGED <<workers, apps, code, sideVars>>

\* worker c's request ends with response r
Respond(c, r) == RespondLogged(c, r, "")

\* worker c's request goes on at label l with local variables v
Goto(c, l, v) ==
    /\ pc' = [pc EXCEPT ![c] = l]
    /\ loc' = [loc EXCEPT ![c] = v]
    /\ resp' = NoResponse
    /\ UNCHANGED <<workers, apps, code, sideVars>>

----------------------------------------------------------------------------
(* oauthlogin and authorize (oauth/views.py) *)

NoProfile == [openid |-> "", nickname |-> "", email |-> NoEmail]

\* AUTH_URL of each manager class
AUTH_URL ==
    [weibo |-> "https://api.weibo.com/oauth2/authorize",
     google |-> "https://accounts.google.com/o/oauth2/v2/auth",
     github |-> "https://github.com/login/oauth/authorize",
     facebook |-> "https://www.facebook.com/v16.0/dialog/oauth",
     qq |-> "https://graph.qq.com/oauth2.0/authorize"]

\* manager.get_authorization_url(nexturl): weibo, github and qq embed the
\* return path in redirect_uri, google and facebook do not
AuthorizationUrl(type, nexturl) ==
    IF type \in {"weibo", "github", "qq"}
    THEN <<AUTH_URL[type], "&next_url=">> \o nexturl
    ELSE <<AUTH_URL[type]>>

\* the OAuthUser object authorize works on after the lookup by (type, openid):
\* the stored row with picture, metadata and nickname refreshed, or the
\* unsaved object of the profile; facebook's token is blanked
AuthorizeUser(type, prof, rows, now) ==
    LET nick == IF Strip(prof.nickname) = "" THEN GenName(now) ELSE prof.nickname
        fresh == [NoUser EXCEPT !.type = type, !.openid = prof.openid,
                                !.nickname = nick, !.email = prof.email,
                                !.token = TokenOf(prof.nickname),
                                !.picture = PictureOf(prof.nickname),
                                !.metadata = MetadataOf(prof.nickname)]
        temp == CHOOSE r \in rows : TRUE
        user == IF rows = {} THEN fresh
                ELSE [temp EXCEPT !.picture = fresh.picture,
                                  !.metadata = fresh.metadata,
                                  !.nickname = nick]
    IN  IF type = "facebook" THEN [user EXCEPT !.token = ""] ELSE user

----------------------------------------------------------------------------
(* The provider adapters (oauth/oauthmanager.py) *)

\* ICON_NAME of the five manager classes
Providers == {"weibo", "google", "github", "facebook", "qq"}

\* what the token endpoint can answer: the call fails in transport, an empty
\* body, a body that is not in the provider's format (an HTML error page), a
\* well-formed answer without access_token, one with access_token but
\* without the user hint (uid, id_token), a complete one
TokenResponses == {"transport_error", "empty", "garbage", "no_token", "token_only", "token"}

\* what the profile endpoint and QQ's openid endpoint can answer: the call
\* fails in transport, an empty body, an unparsable body, a JSON object
\* without the fields the adapter reads, a complete answer
ProfileResponses == {"transport_error", "empty", "garbage", "missing_field", "profile"}

\* QQOauthManager.get_open_id: "raise" is an exception leaving the method,
\* "none" a return of None, "openid" the resolved openid
get_open_id(orsp) ==
    IF orsp = "empty" THEN "none"
    ELSE IF orsp = "profile" THEN "openid" ELSE "raise"

\* get_oauth_userinfo of each manager once the token is set: "user" is an
\* OAuthUser object, "none" a return of None, "raise" an exception leaving the
\* method.  weibo, google and github call do_get outside their try block,
\* facebook inside; qq has no try block and resolves the openid first
get_oauth_userinfo(type, orsp, prsp) ==
    IF type \in {"weibo", "google", "github"} THEN
        IF prsp = "transport_error" THEN "raise"
        ELSE IF prsp = "profile" THEN "user" ELSE "none"
    ELSE IF type = "facebook" THEN
        IF prsp = "profile" THEN "user" ELSE "none"
    ELSE
        IF get_open_id(orsp) # "openid" THEN get_open_id(orsp)
        ELSE IF prsp = "profile" THEN "user" ELSE "raise"

\* get_access_token_by_code of each manager as authorize sees it: "denied"
\* when it raises OAuthAccessTokenException, "error" when it raises anything
\* else or returns nothing, "ok" when it returns a result.  weibo returns
\* the result of a first get_oauth_userinfo(), answered with prsp
get_access_token_by_code(type, trsp, prsp) ==
    IF trsp = "transport_error" THEN "error"
    ELSE IF type = "weibo" THEN
        IF trsp \in {"empty", "garbage", "token_only"} THEN "error"
        ELSE IF trsp = "no_token" THEN "denied"
        ELSE IF get_oauth_userinfo(type, "profile", prsp) = "user" THEN "ok" ELSE "error"
    ELSE IF type = "google" THEN
        IF trsp \in {"empty", "garbage", "token_only"} THEN "error"
        ELSE IF trsp = "no_token" THEN "denied" ELSE "ok"
    ELSE IF type = "github" THEN
        IF trsp \in {"empty", "garbage", "no_token"} THEN "denied" ELSE "ok"
    ELSE IF type = "facebook" THEN
        IF trsp \in {"empty", "garbage"} THEN "error"
        ELSE IF trsp = "no_token" THEN "denied" ELSE "ok"
    ELSE
        IF trsp = "empty" THEN "denied"
        ELSE IF trsp \in {"garbage", "no_token"} THEN "error" ELSE "ok"

----------------------------------------------------------------------------
(* oauthlogin and the start of authorize (oauth/views.py) *)

\* oauthlogin picking the manager class by name whether or not its
\* configuration is enabled (mutation of OAuthLoginRequest)
OAuthLoginAnyManager(c, type, nu) ==
    /\ StartRequest(c)
    /\ IF type \notin Providers
       THEN Respond(c, Redirect(<<"/">>))
       ELSE Respond(c, Redirect(AuthorizationUrl(type, get_redirecturl(nu))))
    /\ UNCHANGED <<dbVars, outbox, nmail, clock>>

\* oauthlogin with the query parameters type and next_url (lines 68-80)
OAuthLoginRequest(c, type, nu) ==
    /\ StartRequest(c)
    /\ IF type \notin apps
       THEN Respond(c, Redirect(<<"/">>))
       ELSE Respond(c, Redirect(AuthorizationUrl(type, get_redirecturl(nu))))
    /\ UNCHANGED <<dbVars, outbox, nmail, clock>>

OAuthLogin(c) ==
    \E type \in TypeParams, nu \in NextUrls : OAuthLoginRequest(c, type, nu)

\* authorize answering every failed token exchange with the retry redirect
\* (mutation of AuthorizeCallback)
AuthorizeCallbackRetrying(c, type, tok, prof, nu) ==
    LET nexturl == get_redirecturl(nu)
        rows == UsersBy(type, prof.openid)
        user == AuthorizeUser(type, prof, rows, clock)
    IN  /\ StartRequest(c)
        /\ IF type \notin apps
           THEN Respond(c, Redirect(<<"/">>))
           ELSE IF tok \in {"denied", "error"}
           THEN Respond(c, Redirect(AuthorizationUrl(type, nexturl)))
           ELSE IF prof = NoProfile
           THEN Respond(c, Redirect(nexturl))
           ELSE IF Cardinality(rows) > 1
           THEN Respond(c, ServerError)
           ELSE Goto(c, IF user.email # NoEmail THEN "auth_tx" ELSE "auth_save",
                     [NoLocals EXCEPT !.op = "authorize", !.user = user,
                                      !.nexturl = nexturl,
                                      !.profile_email = prof.email,
                                      !.found = user.id])
        /\ UNCHANGED <<dbVars, outbox, nmail, clock>>

\* authorize up to the lookup of the stored identity (lines 92-140): the
\* callback carries type and next_url, the token exchange ends with tok and
\* get_oauth_userinfo() answers prof.  tok is "denied" when
\* get_access_token_by_code raises OAuthAccessTokenException, "error" when it
\* raises anything else or returns nothing, "ok" otherwise.
\* OAuthUser.objects.get raises MultipleObjectsReturned when several rows match
AuthorizeCallback(c, type, tok, prof, nu) ==
    LET nexturl == get_redirecturl(nu)
        rows == UsersBy(type, prof.openid)
        user == AuthorizeUser(type, prof, rows, clock)
    IN  /\ StartRequest(c)
        /\ IF type \notin apps
           THEN Respond(c, Redirect(<<"/">>))
           ELSE IF tok = "denied"
           THEN RespondLogged(c, Redirect(<<"/">>), "OAuthAccessTokenException")
           ELSE IF tok = "error"
           THEN Respond(c, Redirect(AuthorizationUrl(type, nexturl)))
           ELSE IF prof = NoProfile
           THEN Respond(c, Redirect(nexturl))
           ELSE IF Cardinality(rows) > 1
           THEN Respond(c, ServerError)
           ELSE Goto(c, IF user.email # NoEmail THEN "auth_tx" ELSE "auth_save",
                     [NoLocals EXCEPT !.op = "authorize", !.user = user,
                                      !.nexturl = nexturl,
                                      !.profile_email = prof.email,
                                      !.found = user.id])
        /\ UNCHANGED <<dbVars, outbox, nmail, clock>>

\* the callbacks that can arrive; what a path of the code does not read
\* (the profile when there is no token, next_url when the type is refused)
\* stays at its default
CallbackInputs ==
    {<<type, "ok", NoProfile, <<>> >> : type \in TypeParams \ EnabledTypes}
    \cup {<<type, "denied", NoProfile, <<>> >> : type \in EnabledTypes}
    \cup {<<type, "error", NoProfile, nu>> : type \in EnabledTypes, nu \in NextUrls}
    \cup {<<type, "ok", prof, nu>> : type \in EnabledTypes,
                                     prof \in ProviderProfiles \cup {NoProfile},
                                     nu \in NextUrls}

AuthorizeStart(c) ==
    \E in \in CallbackInputs : AuthorizeCallback(c, in[1], in[2], in[3], in[4])

\* inside transaction.atomic(): the linked account, else the account with the
\* identity's e-mail (lines 141-151, the get of get_or_create)
AuthorizeResolve(c) ==
    LET v == loc[c]
        byId == AccountsById(v.user.author_id)
        byEmail == AccountsByEmail(v.user.email)
    IN  /\ pc[c] = "auth_tx"
        /\ IF byId # {}
           THEN Goto(c, "auth_link", [v EXCEPT !.author = CHOOSE a \in byId : TRUE])
           ELSE IF byEmail = {}
           THEN Goto(c, "auth_create", v)
           ELSE IF Cardinality(byEmail) = 1
           THEN Goto(c, "auth_link", [v EXCEPT !.author = CHOOSE a \in byEmail : TRUE])
           ELSE Respond(c, ServerError)
        /\ UNCHANGED <<dbVars, outbox, nmail, clock, nreq>>

\* the create of get_or_create, the choice of the username and author.save()
\* (lines 151-163).  The INSERT carries username '' and waits while another
\* open transaction holds a row it inserted; a username that exists already
\* makes author.save() raise IntegrityError, which rolls the transaction back
AuthorizeCreate(c) ==
    \E now \in clock..MaxClock :
        LET v == loc[c]
            taken == AccountsByName(v.user.nickname) # {}
            name == IF taken THEN GenName(now) ELSE v.user.nickname
            author == [id |-> nextUserId, username |-> name,
                       email |-> v.user.email, source |-> "authorize"]
        IN  /\ pc[c] = "auth_create"
            /\ Creating \ {c} = {}
            /\ nextUserId' = nextUserId + 1
            /\ clock' = IF taken THEN now ELSE clock
            /\ IF AccountsByName(name) # {}
               THEN Respond(c, ServerError)
               ELSE Goto(c, "auth_link", [v EXCEPT !.author = author, !.created = TRUE])
            /\ UNCHANGED <<oauthusers, accounts, nextOAuthId, outbox, nmail, nreq>>

\* user.author = author; user.save(); login(request, author); the
\* transaction commits; redirect to the return path (lines 166-175)
AuthorizeLink(c) ==
    LET v == loc[c]
        user == [v.user EXCEPT !.author_id = v.author.id]
    IN  /\ pc[c] = "auth_link"
        /\ accounts' = IF v.created THEN accounts \cup {v.author} ELSE accounts
        /\ oauthusers' = SaveUser(oauthusers, user, nextOAuthId)
        /\ nextOAuthId' = IF user.id = 0 THEN nextOAuthId + 1 ELSE nextOAuthId
        /\ Respond(c, LoginRedirect(v.nexturl, v.author.id))
        /\ UNCHANGED <<nextUserId, outbox, nmail, clock, nreq>>

\* no e-mail: user.save() and the redirect to the e-mail form (lines 176-182)
AuthorizeSaveNoEmail(c) ==
    LET v == loc[c]
    IN  /\ pc[c] = "auth_save"
        /\ oauthusers' = SaveUser(oauthusers, v.user, nextOAuthId)
        /\ nextOAuthId' = IF v.user.id = 0 THEN nextOAuthId + 1 ELSE nextOAuthId
        /\ Respond(c, Redirect(RequireEmailUrl(SavedId(v.user, nextOAuthId))))
        /\ UNCHANGED <<accounts, nextUserId, outbox, nmail, clock, nreq>>

----------------------------------------------------------------------------
(* RequireEmailView.form_valid and emailconfirm (oauth/views.py) *)

\* a form that takes every submitted address for a valid one
EmailFieldAny(email) == TRUE

\* forms.EmailField(required=True): the field is valid when the submitted
\* text is an address; a blank text and a text without domain are not
EmailField(email) == email \in Emails

\* a POST of the e-mail form to /oauth/requireemail/<urlid>.html.  With a
\* valid form, form_valid reads the identity named by the form's oauthid field
\* (lines 297-299; 0 is a missing field, which finds no row) and never looks
\* at the URL.  With an invalid one FormView renders the form again, and
\* get_context_data reads the identity the URL names (lines 287-293)
RequireEmailSubmit(c, urlid, oauthid, email) ==
    /\ StartRequest(c)
    /\ IF EmailField(email)
       THEN IF UsersById(oauthid) = {}
            THEN Respond(c, NotFound)
            ELSE Goto(c, "form_save",
                      [NoLocals EXCEPT !.op = "requireemail",
                                       !.user = CHOOSE u \in UsersById(oauthid) : TRUE,
                                       !.profile_email = email,
                                       !.found = oauthid,
                                       !.link_id = urlid])
       ELSE IF UsersById(urlid) = {}
            THEN Respond(c, NotFound)
            ELSE Respond(c, Rendered)
    /\ UNCHANGED <<dbVars, outbox, nmail, clock>>

RequireEmailPost(c) ==
    \E urlid \in 1..nextOAuthId, oauthid \in 0..nextOAuthId, email \in FormEmails :
        RequireEmailSubmit(c, urlid, oauthid, email)

\* a form_valid that stores the address and redirects without mailing the link
RequireEmailSaveUnmailed(c) ==
    LET v == loc[c]
        user == [v.user EXCEPT !.email = v.profile_email]
    IN  /\ pc[c] = "form_save"
        /\ oauthusers' = SaveUser(oauthusers, user, nextOAuthId)
        /\ Respond(c, Redirect(BindSuccessUrl(v.found, "email")))
        /\ UNCHANGED <<accounts, nextOAuthId, nextUserId, outbox, nmail, clock, nreq>>

\* oauthuser.email = email; oauthuser.save(); the confirmation link is signed
\* and mailed; redirect to the "one step away" page (lines 300-337)
RequireEmailSave(c) ==
    LET v == loc[c]
        user == [v.user EXCEPT !.email = v.profile_email]
    IN  /\ pc[c] = "form_save"
        /\ oauthusers' = SaveUser(oauthusers, user, nextOAuthId)
        /\ outbox' = outbox \cup {[to |-> v.profile_email, kind |-> "confirm",
                                    id |-> v.found, sign |-> IssueSign(user.id)]}
        /\ nmail' = nmail + 1
        /\ Respond(c, Redirect(BindSuccessUrl(v.found, "email")))
        /\ UNCHANGED <<accounts, nextOAuthId, nextUserId, clock, nreq>>

\* signatures a visitor may present: those of mailed links, as mailed or in
\* upper case, and two that no link carries
SignChoices ==
    {IssueSign(i) : i \in 1..nextOAuthId}
    \cup {StrUpper(IssueSign(i)) : i \in 1..nextOAuthId}
    \cup {<<>>, <<"z", "z">>}

\* the link for identity id was mailed
Mailed(id) == \E m \in outbox : m.kind = "confirm" /\ m.id = id

\* an emailconfirm that reads the row before it checks the signature
EmailConfirmVisitLookupFirst(c, id, sign) ==
    /\ StartRequest(c)
    /\ SignatureOk(id, sign) => Mailed(id)
    /\ IF UsersById(id) = {}
       THEN Respond(c, NotFound)
       ELSE IF ~SignatureOk(id, sign)
       THEN Respond(c, Forbidden)
       ELSE Goto(c, "ec_tx",
                 [NoLocals EXCEPT !.op = "emailconfirm",
                                  !.user = CHOOSE u \in UsersById(id) : TRUE,
                                  !.found = id, !.link_id = id, !.sign = sign])
    /\ UNCHANGED <<dbVars, outbox, nmail, clock>>

\* emailconfirm up to get_object_or_404 (lines 197-206).  SECRET_KEY is not
\* known to visitors: a signature that verifies for id is presented only
\* when a link for id was mailed
EmailConfirmVisit(c, id, sign) ==
    LET ok == SignatureOk(id, sign)
    IN  /\ StartRequest(c)
        /\ ok => Mailed(id)
        /\ IF ~ok
           THEN Respond(c, Forbidden)
           ELSE IF UsersById(id) = {}
           THEN Respond(c, NotFound)
           ELSE Goto(c, "ec_tx",
                     [NoLocals EXCEPT !.op = "emailconfirm",
                                      !.user = CHOOSE u \in UsersById(id) : TRUE,
                                      !.found = id, !.link_id = id, !.sign = sign])
        /\ UNCHANGED <<dbVars, outbox, nmail, clock>>

EmailConfirmStart(c) ==
    \E id \in 1..nextOAuthId, sign \in SignChoices : EmailConfirmVisit(c, id, sign)

\* inside transaction.atomic(): the linked account, else the account with the
\* identity's e-mail (lines 208-214, the get of get_or_create)
EmailConfirmResolve(c) ==
    LET v == loc[c]
        byId == AccountsById(v.user.author_id)
        byEmail == AccountsByEmail(v.user.email)
    IN  /\ pc[c] = "ec_tx"
        /\ IF byId # {}
           THEN Goto(c, "ec_link", [v EXCEPT !.author = CHOOSE a \in byId : TRUE])
           ELSE IF byEmail = {}
           THEN Goto(c, "ec_create", v)
           ELSE IF Cardinality(byEmail) = 1
           THEN Goto(c, "ec_link", [v EXCEPT !.author = CHOOSE a \in byEmail : TRUE])
           ELSE Respond(c, ServerError)
        /\ UNCHANGED <<dbVars, outbox, nmail, clock, nreq>>

\* the create of get_or_create and author.save() with the display name as
\* username (lines 214-221).  BlogUser.email is NOT NULL and username is
\* unique: a missing e-mail or a taken username raises IntegrityError
EmailConfirmCreate(c) ==
    \E now \in clock..MaxClock :
        LET v == loc[c]
            blank == Strip(v.user.nickname) = ""
            name == IF blank THEN GenName(now) ELSE Strip(v.user.nickname)
            author == [id |-> nextUserId, username |-> name,
                       email |-> v.user.email, source |-> "emailconfirm"]
        IN  /\ pc[c] = "ec_create"
            /\ Creating \ {c} = {}
            /\ nextUserId' = nextUserId + 1
            /\ clock' = IF blank THEN now ELSE clock
            /\ IF v.user.email = NoEmail \/ AccountsByName(name) # {}
               THEN Respond(c, ServerError)
               ELSE Goto(c, "ec_link", [v EXCEPT !.author = author, !.created = TRUE])
            /\ UNCHANGED <<oauthusers, accounts, nextOAuthId, outbox, nmail, nreq>>

\* oauthuser.author = author; oauthuser.save(); the transaction commits;
\* login(request, author); the notification is mailed; redirect to the
\* success page (lines 223-253)
EmailConfirmLink(c) ==
    LET v == loc[c]
        user == [v.user EXCEPT !.author_id = v.author.id]
    IN  /\ pc[c] = "ec_link"
        /\ accounts' = IF v.created THEN accounts \cup {v.author} ELSE accounts
        /\ oauthusers' = SaveUser(oauthusers, user, nextOAuthId)
        /\ outbox' = outbox \cup {[to |-> user.email, kind |-> "success",
                                    id |-> user.id, sign |-> <<>>]}
        /\ nmail' = nmail + 1
        /\ Respond(c, LoginRedirect(BindSuccessUrl(v.link_id, "success"), v.author.id))
        /\ UNCHANGED <<nextOAuthId, nextUserId, clock, nreq>>

----------------------------------------------------------------------------
(* The specification of the linking state machine *)

Next ==
    \/ \E c \in Workers : OAuthLogin(c)
    \/ \E c \in Workers : AuthorizeStart(c)
    \/ \E c \in Workers : AuthorizeResolve(c)
    \/ \E c \in Workers : AuthorizeCreate(c)
    \/ \E c \in Workers : AuthorizeLink(c)
    \/ \E c \in Workers : AuthorizeSaveNoEmail(c)
    \/ \E c \in Workers : RequireEmailPost(c)
    \/ \E c \in Workers : RequireEmailSave(c)
    \/ \E c \in Workers : EmailConfirmStart(c)
    \/ \E c \in Workers : EmailConfirmResolve(c)
    \/ \E c \in Workers : EmailConfirmCreate(c)
    \/ \E c \in Workers : EmailConfirmLink(c)

Spec == Init /\ [][Next]_vars

SeqSpec == SeqInit /\ [][Next]_vars

\* a server with one worker whose provider configuration is enabled or not
CfgInit == workers = {1} /\ apps \in {{}, EnabledTypes} /\ LinkInit /\ SideIdle

CfgSpec == CfgInit /\ [][Next]_vars

\* the row an authorize callback stored for a weibo profile without e-mail,
\* with the address the identity's owner submitted on the form afterwards
PendingUser ==
    [AuthorizeUser("weibo", [openid |-> "o1", nickname |-> "n1", email |-> NoEmail],
                   {}, 0)
        EXCEPT !.id = 1, !.email = "e1"]

\* a server with two workers started on a database in which one identity
\* waits for its confirmation: the callback stored it, the form was
\* submitted and the link was mailed
PendingInit ==
    /\ workers = Workers
    /\ apps = EnabledTypes
    /\ code = "c1"
    /\ oauthusers = {PendingUser}
    /\ accounts = {}
    /\ nextOAuthId = 2
    /\ nextUserId = 1
    /\ outbox = {[to |-> "e1", kind |-> "confirm", id |-> 1, sign |-> IssueSign(1)]}
    /\ nmail = 1
    /\ clock = 0
    /\ pc = [c \in Workers |-> "idle"]
    /\ loc = [c \in Workers |-> NoLocals]
    /\ resp = NoResponse
    /\ nreq = 0
    /\ SideIdle

PendingSpec == PendingInit /\ [][Next]_vars

----------------------------------------------------------------------------
(* Requests that fail after their writes (oauth/views.py) *)

\* authorize, lines 166-175: oauth_user_login_signal.send or login(request,
\* author) raises inside transaction.atomic(); the block rolls back (the
\* auto-increment value of a fresh row stays used) and the request ends with
\* status 500
AuthorizeLoginFails(c) ==
    /\ pc[c] = "auth_link"
    /\ nextOAuthId' = IF loc[c].user.id = 0 THEN nextOAuthId + 1 ELSE nextOAuthId
    /\ Respond(c, ServerError)
    /\ UNCHANGED <<oauthusers, accounts, nextUserId, outbox, nmail, clock, nreq>>

\* form_valid, lines 300-330: oauthuser.save() runs in autocommit, then
\* send_email raises; the request ends with status 500
RequireEmailMailFails(c) ==
    LET v == loc[c]
        user == [v.user EXCEPT !.email = v.profile_email]
    IN  /\ pc[c] = "form_save"
        /\ oauthusers' = SaveUser(oauthusers, user, nextOAuthId)
        /\ Respond(c, ServerError)
        /\ UNCHANGED <<accounts, nextOAuthId, nextUserId, outbox, nmail, clock, nreq>>

\* emailconfirm, lines 223-231: the transaction commits, then
\* oauth_user_login_signal.send or login(request, author) raises; the request
\* ends with status 500
EmailConfirmLoginFails(c) ==
    LET v == loc[c]
        user == [v.user EXCEPT !.author_id = v.author.id]
    IN  /\ pc[c] = "ec_link"
        /\ accounts' = IF v.created THEN accounts \cup {v.author} ELSE accounts
        /\ oauthusers' = SaveUser(oauthusers, user, nextOAuthId)
        /\ Respond(c, ServerError)
        /\ UNCHANGED <<nextOAuthId, nextUserId, outbox, nmail, clock, nreq>>

\* emailconfirm, lines 223-246: the transaction commits, login(request,
\* author) establishes the session, then send_email raises; the request ends
\* with status 500
EmailConfirmMailFails(c) ==
    LET v == loc[c]
        user == [v.user EXCEPT !.author_id = v.author.id]
    IN  /\ pc[c] = "ec_link"
        /\ accounts' = IF v.created THEN accounts \cup {v.author} ELSE accounts
        /\ oauthusers' = SaveUser(oauthusers, user, nextOAuthId)
        /\ Respond(c, [ServerError EXCEPT !.login = v.author.id])
        /\ UNCHANGED <<nextOAuthId, nextUserId, outbox, nmail, clock, nreq>>

FaultNext ==
    \/ Next
    \/ \E c \in Workers : AuthorizeLoginFails(c)
    \/ \E c \in Workers : RequireEmailMailFails(c)
    \/ \E c \in Workers : EmailConfirmLoginFails(c)
    \/ \E c \in Workers : EmailConfirmMailFails(c)

\* one worker; the session store and the mail dispatch may fail
FaultSpec == SeqInit /\ [][FaultNext]_vars

----------------------------------------------------------------------------
(* Callbacks of the five providers (oauth/views.py, oauth/oauthmanager.py) *)

\* a server with one worker and all five providers enabled
ProvInit == workers = {1} /\ apps = Providers /\ LinkInit /\ SideIdle

\* authorize from the token exchange to the lookup of the stored identity
\* (lines 92-140) with the adapter of the provider in between: the token
\* endpoint answers trsp, weibo's profile fetch inside the token exchange is
\* answered with prsp1, QQ's openid endpoint answers orsp and the profile
\* endpoint prsp, with profile prof when the answer is complete.  An
\* exception leaving manager.get_oauth_userinfo() (line 118) is caught
\* nowhere: the request ends with status 500
ProviderCallback(c, type, trsp, prsp1, orsp, prsp, prof, nu) ==
    LET tok == get_access_token_by_code(type, trsp, prsp1)
        info == get_oauth_userinfo(type, orsp, prsp)
    IN  IF type \in apps /\ tok = "ok" /\ info = "raise"
        THEN /\ StartRequest(c)
             /\ Respond(c, ServerError)
             /\ UNCHANGED <<dbVars, outbox, nmail, clock>>
        ELSE AuthorizeCallback(c, type, tok,
                               IF tok = "ok" /\ info = "user" THEN prof ELSE NoProfile, nu)

\* the profiles of one person, as a provider that hands out the e-mail
\* address and one that does not answer
PersonProfiles == {p \in ProviderProfiles : p.openid = "o1" /\ p.nickname = "n1"}

\* the callbacks that can arrive; an answer the adapter does not read stays
\* at "profile", the profile is NoProfile unless the fetch succeeds and
\* next_url is read only when the token exchange did not raise
\* OAuthAccessTokenException
ProviderInputs ==
    {in \in Providers \X TokenResponses \X ProfileResponses \X ProfileResponses
             \X ProfileResponses \X (PersonProfiles \cup {NoProfile}) \X NextUrls :
        LET type == in[1]
            tok == get_access_token_by_code(type, in[2], in[3])
            info == get_oauth_userinfo(type, in[4], in[5])
        IN  /\ (type # "weibo" \/ in[2] # "token") => in[3] = "profile"
            /\ (type # "qq" \/ tok # "ok") => in[4] = "profile"
            /\ (tok # "ok" \/ (type = "qq" /\ get_open_id(in[4]) # "openid"))
                  => in[5] = "profile"
            /\ (in[6] # NoProfile) <=> (tok = "ok" /\ info = "user")
            /\ (tok = "denied" \/ (tok = "ok" /\ info = "raise")) => in[7] = <<>>}

ProviderStart(c) ==
    \E in \in ProviderInputs :
        ProviderCallback(c, in[1], in[2], in[3], in[4], in[5], in[6], in[7])

\* the authorization codes a provider hands out
Codes == {"c1", "c2"}

\* the response sends the browser to the authorization page of provider type
RetryRedirect(r, type) ==
    /\ r.status = 302
    /\ r.location # <<>>
    /\ r.location[1] = AUTH_URL[type]

\* the browser follows a redirect to the authorization page, the provider
\* sends it back to the callback with a new code and the token exchange
\* fails again (authorize, lines 92-115): the same login attempt goes on.
\* Only weibo, github and qq carry next_url through the provider
RetryCallback(c) ==
    \E type \in apps, trsp \in TokenResponses, prsp1 \in ProfileResponses :
        LET tok == get_access_token_by_code(type, trsp, prsp1)
            nu == IF Len(resp.location) > 2 THEN SubSeq(resp.location, 3, Len(resp.location))
                  ELSE <<>>
            r == IF tok = "denied" THEN Redirect(<<"/">>)
                 ELSE Redirect(AuthorizationUrl(type, get_redirecturl(nu)))
        IN  /\ c \in workers
            /\ pc[c] = "idle"
            /\ RetryRedirect(resp, type)
            /\ tok # "ok"
            /\ code' \in Codes \ {code}
            /\ resp' = [worker |-> c, status |-> r.status, location |-> r.location,
                        login |-> r.login,
                        log |-> IF tok = "denied" THEN "OAuthAccessTokenException" ELSE ""]
            /\ UNCHANGED <<workers, apps, dbVars, outbox, nmail, clock, pc, loc, nreq, sideVars>>

ProvNext ==
    \/ \E c \in Workers : ProviderStart(c)
    \/ \E c \in Workers : RetryCallback(c)
    \/ \E c \in Workers : AuthorizeResolve(c)
    \/ \E c \in Workers : AuthorizeCreate(c)
    \/ \E c \in Workers : AuthorizeLink(c)
    \/ \E c \in Workers : AuthorizeSaveNoEmail(c)

ProvSpec == ProvInit /\ [][ProvNext]_vars

\* every redirect to the authorization page is followed
ProvLiveSpec == ProvSpec /\ WF_vars(\E c \in Workers : RetryCallback(c))

----------------------------------------------------------------------------
(* The outbound calls of one login (oauth/oauthmanager.py, oauth/views.py) *)

\* the calls get_access_token_by_code makes: do_post (do_get for qq) to
\* TOKEN_URL; WBOauthManager goes on with get_oauth_userinfo(), a do_get to
\* API_URL, once the answer carried access_token and uid (lines 131-137)
TokenCalls(type, trsp) ==
    IF type = "weibo" /\ trsp = "token" THEN <<"token", "profile">> ELSE <<"token">>

\* the calls get_oauth_userinfo makes once the token is set: a do_get to
\* API_URL, for qq after the do_get to OPEN_ID_URL of get_open_id and only
\* when that resolved an openid (lines 478-502)
UserinfoCalls(type, orsp) ==
    IF type # "qq" THEN <<"profile">>
    ELSE IF get_open_id(orsp) = "openid" THEN <<"openid", "profile">>
    ELSE <<"openid">>

\* what the endpoints of a provider answer during one login: the token
\* endpoint, the profile endpoint when weibo's token exchange asks it, QQ's
\* openid endpoint, the profile endpoint when authorize asks
AdapterAnswers ==
    [trsp : TokenResponses, prsp1 : ProfileResponses,
     orsp : ProfileResponses, prsp : ProfileResponses]

\* BaseOauthManager.__init__(access_token=None, openid=None) (lines 36-45)
NoCredentials == [access_token |-> "None", openid |-> "None"]

\* self.access_token and self.openid after get_access_token_by_code: every
\* manager stores the access_token of an answer that carries one; weibo and
\* google store the user hint (uid, id_token) next, and only these two
ExchangeCredentials(type, trsp, self) ==
    [access_token |-> IF trsp \in {"token_only", "token"} THEN "token"
                      ELSE self.access_token,
     openid |-> IF type \in {"weibo", "google"} /\ trsp = "token" THEN "hint"
                ELSE self.openid]

\* self.access_token and self.openid after get_oauth_userinfo: only QQ's
\* get_open_id stores something, the openid it resolved (line 490)
UserinfoCredentials(type, orsp, self) ==
    IF type = "qq" /\ get_open_id(orsp) = "openid"
    THEN [self EXCEPT !.openid = "openid"]
    ELSE self

\* a callback with a code arrives for an enabled provider
AdpInit ==
    /\ workers = {}
    /\ apps = Providers
    /\ LinkInit
    /\ SigIdle
    /\ RegIdle
    /\ UrlIdle
    /\ RstIdle
    /\ adp_type \in Providers
    /\ adp_rsp \in AdapterAnswers
    /\ adp_pc = "code"
    /\ adp_calls = <<>>
    /\ adp_self = NoCredentials

\* authorize: rsp = manager.get_access_token_by_code(code) (views.py:100-115)
AdpExchange ==
    LET tok == get_access_token_by_code(adp_type, adp_rsp.trsp, adp_rsp.prsp1)
    IN  /\ adp_pc = "code"
        /\ adp_calls' = adp_calls \o TokenCalls(adp_type, adp_rsp.trsp)
        /\ adp_self' = ExchangeCredentials(adp_type, adp_rsp.trsp, adp_self)
        /\ adp_pc' = CASE tok = "ok" -> "token"
                        [] tok = "denied" -> "home"
                        [] tok = "error" -> "retry"
        /\ UNCHANGED <<adp_type, adp_rsp>>
        /\ UNCHANGED <<linkVars, sigVars, regVars, urlVars, rstVars>>

\* a get_oauth_userinfo that saves the OAuthUser it returns
AdpUserinfoSaving ==
    LET info == get_oauth_userinfo(adp_type, adp_rsp.orsp, adp_rsp.prsp)
    IN  /\ adp_pc = "token"
        /\ adp_calls' = adp_calls \o UserinfoCalls(adp_type, adp_rsp.orsp)
        /\ adp_self' = UserinfoCredentials(adp_type, adp_rsp.orsp, adp_self)
        /\ adp_pc' = CASE info = "user" -> "login"
                        [] info = "none" -> "nouser"
                        [] info = "raise" -> "error"
        /\ oauthusers' = IF info = "user"
                         THEN SaveUser(oauthusers, [NoUser EXCEPT !.type = adp_type],
                                       nextOAuthId)
                         ELSE oauthusers
        /\ nextOAuthId' = IF info = "user" THEN nextOAuthId + 1 ELSE nextOAuthId
        /\ UNCHANGED <<adp_type, adp_rsp>>
        /\ UNCHANGED <<workers, apps, code, accounts, nextUserId, outbox, nmail,
                       clock, pc, loc, resp, nreq>>
        /\ UNCHANGED <<sigVars, regVars, urlVars, rstVars>>

\* authorize: user = manager.get_oauth_userinfo() (views.py:118-119); with a
\* user the request goes on to store the identity and log its owner in,
\* which calls no provider
AdpUserinfo ==
    LET info == get_oauth_userinfo(adp_type, adp_rsp.orsp, adp_rsp.prsp)
    IN  /\ adp_pc = "token"
        /\ adp_calls' = adp_calls \o UserinfoCalls(adp_type, adp_rsp.orsp)
        /\ adp_self' = UserinfoCredentials(adp_type, adp_rsp.orsp, adp_self)
        /\ adp_pc' = CASE info = "user" -> "login"
                        [] info = "none" -> "nouser"
                        [] info = "raise" -> "error"
        /\ UNCHANGED <<adp_type, adp_rsp>>
        /\ UNCHANGED <<linkVars, sigVars, regVars, urlVars, rstVars>>

\* authorize after a failed exchange: the redirect to
\* manager.get_authorization_url(nexturl) (views.py:111-115); the manager
\* builds the URL from its configuration, calls nothing and stores nothing
AdpAuthorizationUrl ==
    /\ adp_pc = "retry"
    /\ adp_pc' = "redirect"
    /\ UNCHANGED <<adp_type, adp_rsp, adp_calls, adp_self>>
    /\ UNCHANGED <<linkVars, sigVars, regVars, urlVars, rstVars>>

AdpNext == AdpExchange \/ AdpUserinfo \/ AdpAuthorizationUrl

AdpSpec == AdpInit /\ [][AdpNext]_vars

----------------------------------------------------------------------------
(* The provider registry and its cache (oauth/oauthmanager.py) *)

\* the providers whose configuration the administrator switches
RegTypes == {"weibo", "qq"}

\* the spellings of the type a caller of get_manager_by_type may pass
RegTypeParams == RegTypes \cup {"WEIBO"}

\* str.lower() of a type parameter
TypeLower(type) == IF type = "WEIBO" THEN "weibo" ELSE type

\* how long the registry is watched, in units of 50 minutes
MaxTime == 4

\* cache_decorator(expiration=100 * 60): 100 minutes, in units of 50 minutes
Expiration == 2

\* no entry under the key of get_oauth_apps
NoEntry == [set |-> FALSE, value |-> {}, at |-> 0]

NoAnswer == [call |-> "", apps |-> {}, manager |-> "None", at |-> 0]

\* a cache whose entries never expire
CacheFreshForever(entry, t) == entry.set

\* cache.get(key) finds the entry: it was set and its timeout has not passed
CacheFresh(entry, t) == entry.set /\ t < entry.at + Expiration

\* get_oauth_apps behind cache_decorator: the cached value, else the types
\* of the enabled OAuthConfig rows for which a manager class exists (lines
\* 523-535); an empty list is cached like any other value
OAuthApps == IF CacheFresh(cache, time) THEN cache.value ELSE configs

\* the entry after the call: a miss stores what was read, for Expiration
CacheFilled ==
    IF CacheFresh(cache, time) THEN cache
    ELSE [set |-> TRUE, value |-> configs, at |-> time]

\* a process with an empty cache; the configurations that are off were
\* switched off before it started
RegInit ==
    /\ workers = {}
    /\ apps = EnabledTypes
    /\ LinkInit
    /\ SigIdle
    /\ AdpIdle
    /\ UrlIdle
    /\ RstIdle
    /\ configs \in SUBSET RegTypes
    /\ cache = NoEntry
    /\ time = 0
    /\ disabled_at = [type \in RegTypes |-> 0]
    /\ answer = NoAnswer

\* a call of get_oauth_apps()
GetOAuthApps ==
    /\ cache' = CacheFilled
    /\ answer' = [call |-> "get_oauth_apps", apps |-> OAuthApps,
                  manager |-> "None", at |-> time]
    /\ UNCHANGED <<configs, time, disabled_at>>
    /\ UNCHANGED <<linkVars, sigVars, adpVars, urlVars, rstVars>>

\* a call of get_manager_by_type(type): the manager among get_oauth_apps()
\* whose ICON_NAME equals the type in lower case, else None (lines 538-553)
GetManagerByType(type) ==
    /\ cache' = CacheFilled
    /\ answer' = [call |-> "get_manager_by_type", apps |-> OAuthApps,
                  manager |-> IF TypeLower(type) \in OAuthApps
                              THEN TypeLower(type) ELSE "None",
                  at |-> time]
    /\ UNCHANGED <<configs, time, disabled_at>>
    /\ UNCHANGED <<linkVars, sigVars, adpVars, urlVars, rstVars>>

\* the administrator sets is_enable of a configuration
EnableConfig(type) ==
    /\ type \notin configs
    /\ configs' = configs \cup {type}
    /\ UNCHANGED <<cache, time, disabled_at, answer>>
    /\ UNCHANGED <<linkVars, sigVars, adpVars, urlVars, rstVars>>

\* the administrator clears is_enable of a configuration
DisableConfig(type) ==
    /\ type \in configs
    /\ configs' = configs \ {type}
    /\ disabled_at' = [disabled_at EXCEPT ![type] = time]
    /\ UNCHANGED <<cache, time, answer>>
    /\ UNCHANGED <<linkVars, sigVars, adpVars, urlVars, rstVars>>

\* 50 minutes pass
Tick ==
    /\ time < MaxTime
    /\ time' = time + 1
    /\ UNCHANGED <<configs, cache, disabled_at, answer>>
    /\ UNCHANGED <<linkVars, sigVars, adpVars, urlVars, rstVars>>

RegNext ==
    \/ GetOAuthApps
    \/ \E type \in RegTypeParams : GetManagerByType(type)
    \/ \E type \in RegTypes : EnableConfig(type)
    \/ \E type \in RegTypes : DisableConfig(type)
    \/ Tick

RegSpec == RegInit /\ [][RegNext]_vars

----------------------------------------------------------------------------
(* get_authorization_url of the five managers (oauth/oauthmanager.py) *)

\* URLs are sequences of these pieces: words of characters that
\* urllib.parse.quote_plus leaves as they are, and single characters it
\* replaces
Quoted ==
    [ch \in {":", "/", "?", "=", "&", ",", " "} |->
        CASE ch = ":" -> "%3A" [] ch = "/" -> "%2F" [] ch = "?" -> "%3F"
          [] ch = "=" -> "%3D" [] ch = "&" -> "%26" [] ch = "," -> "%2C"
          [] ch = " " -> "+"]

\* an encoding that leaves every character as it is
QuoteNothing(s) == s

\* urllib.parse.quote_plus
QuotePlus(s) == [i \in 1..Len(s) |-> IF s[i] \in DOMAIN Quoted THEN Quoted[s[i]] ELSE s[i]]

\* urllib.parse.unquote_plus
UnquotePlus(s) ==
    [i \in 1..Len(s) |->
        IF \E ch \in DOMAIN Quoted : Quoted[ch] = s[i]
        THEN CHOOSE ch \in DOMAIN Quoted : Quoted[ch] = s[i]
        ELSE s[i]]

RECURSIVE UrlEncode(_)
\* urllib.parse.urlencode(params) for a sequence of <<key, value>> pairs
UrlEncode(params) ==
    IF params = <<>> THEN <<>>
    ELSE LET p == Head(params)
             first == <<p[1], "=">> \o QuotePlus(p[2])
         IN  IF Len(params) = 1 THEN first
             ELSE first \o <<"&">> \o UrlEncode(Tail(params))

\* where the separator stands first in s, or Len(s) + 1
IndexOf(s, sep) ==
    IF \E i \in 1..Len(s) : s[i] = sep
    THEN CHOOSE i \in 1..Len(s) : s[i] = sep /\ \A j \in 1..(i - 1) : s[j] # sep
    ELSE Len(s) + 1

RECURSIVE QueryValue(_, _)
\* urllib.parse.parse_qs(query)[key][0]: the query is cut at every "&", each
\* part at its first "=", and the value is unquoted; <<"None">> without key
QueryValue(query, key) ==
    IF query = <<>> THEN <<"None">>
    ELSE LET cut == IndexOf(query, "&")
             part == SubSeq(query, 1, cut - 1)
             rest == SubSeq(query, cut + 1, Len(query))
         IN  IF Len(part) >= 2 /\ part[1] = key /\ part[2] = "="
             THEN UnquotePlus(SubSeq(part, 3, Len(part)))
             ELSE QueryValue(rest, key)

\* the app keys an administrator may have configured
AppKeys == { <<"k1">>, <<"k", "&", "2">>, <<"k", "=", "3">> }

\* the callback URLs an administrator may have configured: with the type as
\* only query parameter, and with a parameter before it
CallbackUrls ==
    { <<"http", ":", "/", "/", "site", "/", "oauth", "/", "authorize", "?", "type", "=", "t">>,
      <<"http", ":", "/", "/", "site", "/", "authorize", "?", "v", "=", "2", "&", "type", "=", "t">> }

\* the return paths oauthlogin passes on
ReturnPaths == NextUrls \cup { <<"/">>, <<"/", "a", "?", "b", "=", "c", "&", "d", "=", "e">> }

\* the parameters each manager puts into the URL (lines 112-120, 218-227,
\* 297-306, 372-381, 449-457)
AuthorizationParams(type, client_id, callback_url, nexturl) ==
    CASE type = "weibo" ->
           << <<"client_id", client_id>>, <<"response_type", <<"code">> >>,
              <<"redirect_uri", callback_url \o <<"&", "next_url", "=">> \o nexturl>> >>
      [] type = "google" ->
           << <<"client_id", client_id>>, <<"response_type", <<"code">> >>,
              <<"redirect_uri", callback_url>>,
              <<"scope", <<"openid", " ", "email">> >> >>
      [] type = "github" ->
           << <<"client_id", client_id>>, <<"response_type", <<"code">> >>,
              <<"redirect_uri", callback_url \o <<"&", "next_url", "=">> \o nexturl>>,
              <<"scope", <<"user">> >> >>
      [] type = "facebook" ->
           << <<"client_id", client_id>>, <<"response_type", <<"code">> >>,
              <<"redirect_uri", callback_url>>,
              <<"scope", <<"email", ",", "public_profile">> >> >>
      [] type = "qq" ->
           << <<"response_type", <<"code">> >>, <<"client_id", client_id>>,
              <<"redirect_uri", callback_url \o <<"&", "next_url", "=">> \o nexturl>> >>

\* manager.get_authorization_url(nexturl)
get_authorization_url(type, client_id, callback_url, nexturl) ==
    <<AUTH_URL[type], "?">>
        \o UrlEncode(AuthorizationParams(type, client_id, callback_url, nexturl))

\* a manager of some provider, built from its OAuthConfig row, and a return
\* path
UrlInit ==
    /\ workers = {}
    /\ apps = Providers
    /\ LinkInit
    /\ SigIdle
    /\ AdpIdle
    /\ RegIdle
    /\ RstIdle
    /\ url_in \in [type : Providers, appkey : AppKeys,
                    callback_url : CallbackUrls, nexturl : ReturnPaths]
    /\ url_pc = "manager"
    /\ url_out = <<>>

\* oauthlogin: authorizeurl = manager.get_authorization_url(nexturl)
\* (views.py:77-79)
GetAuthorizationUrl ==
    /\ url_pc = "manager"
    /\ url_out' = get_authorization_url(url_in.type, url_in.appkey,
                                         url_in.callback_url, url_in.nexturl)
    /\ url_pc' = "url"
    /\ UNCHANGED url_in
    /\ UNCHANGED <<linkVars, sigVars, adpVars, regVars, rstVars>>

UrlNext == GetAuthorizationUrl

UrlSpec == UrlInit /\ [][UrlNext]_vars

----------------------------------------------------------------------------
(* The password reset by verification code (accounts/utils.py, forms.py,
   views.py) *)

\* how long the reset is watched, in units of 150 seconds
MaxResetTime == 3

\* _code_ttl = timedelta(minutes=5), in units of 150 seconds
CodeTtl == 2

\* the codes generate_code() may draw
VerifyCodes == {"111111", "222222"}

\* the passwords a visitor may type; the short one fails
\* password_validation.validate_password
Passwords == {"pw-new", "1"}

validate_password(password) == password # "1"

\* make_password(password): the salted hash stored in BlogUser.password
make_password(password) == <<"pbkdf2_sha256", password>>

\* the hash of the password the accounts were created with
OldPassword == make_password("pw-old")

NoCode == [set |-> FALSE, code |-> "", at |-> 0]

NoMail == [to |-> "", code |-> ""]

\* a cache whose entries never expire
GetCodeForever(email) ==
    IF email \in Emails /\ rst_codes[email].set THEN rst_codes[email].code ELSE "None"

\* utils.get_code(email): cache.get(email), None without entry, after its
\* timeout and for the key None
get_code(email) ==
    IF /\ email \in Emails
       /\ rst_codes[email].set
       /\ rst_time < rst_codes[email].at + CodeTtl
    THEN rst_codes[email].code
    ELSE "None"

\* utils.verify(email, code): TRUE when it returns an error message
verify(email, vcode) == get_code(email) # vcode

\* ForgetPasswordForm.is_valid(): clean_new_password2, the EmailField and
\* clean_email, then clean_code with the e-mail as cleaned so far, None when
\* it was refused (forms.py:144-195)
ForgetPasswordFormValid(password1, password2, email, vcode) ==
    LET password_ok == password1 = password2 /\ validate_password(password2)
        email_ok == EmailField(email) /\ \E u \in rst_users : u.email = email
        cleaned_email == IF email_ok THEN email ELSE "None"
    IN  /\ password_ok
        /\ email_ok
        /\ ~verify(cleaned_email, vcode)

\* the accounts of a site: one account, two accounts with one address each,
\* and two accounts that carry the same address (BlogUser.email is not
\* unique)
ResetAccounts ==
    { {[id |-> 1, email |-> "e1", password |-> OldPassword]},
      {[id |-> 1, email |-> "e1", password |-> OldPassword],
       [id |-> 2, email |-> "e2", password |-> OldPassword]},
      {[id |-> 1, email |-> "e2", password |-> OldPassword],
       [id |-> 2, email |-> "e2", password |-> OldPassword]} }

RstInit ==
    /\ workers = {}
    /\ apps = EnabledTypes
    /\ LinkInit
    /\ SigIdle
    /\ AdpIdle
    /\ RegIdle
    /\ UrlIdle
    /\ rst_users \in ResetAccounts
    /\ rst_codes = [email \in Emails |-> NoCode]
    /\ rst_time = 0
    /\ rst_mail = NoMail
    /\ rst_resp = [status |-> 0, location |-> "", content |-> ""]

\* ForgetPasswordEmailCode.post: for a well-formed address a code is drawn,
\* mailed and stored under the address for 5 minutes (views.py:282-300,
\* utils.py:68-78)
ForgetPasswordEmailCode(email, vcode) ==
    /\ IF EmailField(email)
       THEN /\ rst_mail' = [to |-> email, code |-> vcode]
            /\ rst_codes' = [rst_codes EXCEPT
                                ![email] = [set |-> TRUE, code |-> vcode, at |-> rst_time]]
            /\ rst_resp' = [status |-> 200, location |-> "", content |-> "ok"]
       ELSE /\ rst_resp' = [status |-> 200, location |-> "", content |-> "wrong email"]
            /\ UNCHANGED <<rst_mail, rst_codes>>
    /\ UNCHANGED <<rst_users, rst_time>>
    /\ UNCHANGED <<linkVars, sigVars, adpVars, regVars, urlVars>>

\* ForgetPasswordView.post: an invalid form is rendered again; with a valid
\* one the account with the address is fetched with .get(), which raises
\* when two accounts carry it, its password is replaced by the hash of the
\* new one and the response redirects to /login/ (views.py:260-273)
ForgetPassword(password1, password2, email, vcode) ==
    LET found == {u \in rst_users : u.email = email}
        blog_user == CHOOSE u \in found : TRUE
    IN  /\ IF ~ForgetPasswordFormValid(password1, password2, email, vcode)
           THEN /\ rst_resp' = [status |-> 200, location |-> "", content |-> "form"]
                /\ UNCHANGED rst_users
           ELSE IF Cardinality(found) # 1
           THEN /\ rst_resp' = [status |-> 500, location |-> "", content |-> ""]
                /\ UNCHANGED rst_users
           ELSE /\ rst_users' = (rst_users \ {blog_user})
                                    \cup {[blog_user EXCEPT
                                             !.password = make_password(password2)]}
                /\ rst_resp' = [status |-> 302, location |-> "/login/", content |-> ""]
        /\ UNCHANGED <<rst_codes, rst_time, rst_mail>>
        /\ UNCHANGED <<linkVars, sigVars, adpVars, regVars, urlVars>>

\* 150 seconds pass
ResetTick ==
    /\ rst_time < MaxResetTime
    /\ rst_time' = rst_time + 1
    /\ UNCHANGED <<rst_users, rst_codes, rst_mail, rst_resp>>
    /\ UNCHANGED <<linkVars, sigVars, adpVars, regVars, urlVars>>

RstNext ==
    \/ \E email \in FormEmails, vcode \in VerifyCodes : ForgetPasswordEmailCode(email, vcode)
    \/ \E password1 \in Passwords, password2 \in Passwords :
       \E email \in FormEmails, vcode \in VerifyCodes :
          ForgetPassword(password1, password2, email, vcode)
    \/ ResetTick

RstSpec == RstInit /\ [][RstNext]_vars

----------------------------------------------------------------------------
(* One confirmation link, issued and checked (oauth/views.py) *)

SignAlphabet == {HexDigits[i] : i \in 1..16} \cup DOMAIN LowerOf

\* an identity id and an arbitrary signature string
SigInit ==
    /\ workers = {}
    /\ apps = EnabledTypes
    /\ LinkInit
    /\ sig_id \in 1..MaxSignId
    /\ sig_sign \in StrUpTo(SignAlphabet, MaxSignLen)
    /\ sig_pc = "link"
    /\ sig_accept = FALSE
    /\ AdpIdle
    /\ RegIdle
    /\ UrlIdle
    /\ RstIdle

\* the e-mail form signs a link for the identity (lines 303-305)
SigIssue ==
    /\ sig_pc = "link"
    /\ sig_sign' = IssueSign(sig_id)
    /\ sig_pc' = "mailed"
    /\ UNCHANGED <<sig_id, sig_accept>>
    /\ UNCHANGED <<linkVars, adpVars, regVars, urlVars, rstVars>>

\* emailconfirm checks the link's signature (lines 197-204)
SigCheck ==
    /\ sig_pc \in {"link", "mailed"}
    /\ sig_accept' = SignatureOk(sig_id, sig_sign)
    /\ sig_pc' = IF sig_pc = "link" THEN "checked" ELSE "mailed_checked"
    /\ UNCHANGED <<sig_id, sig_sign>>
    /\ UNCHANGED <<linkVars, adpVars, regVars, urlVars, rstVars>>

\* somebody alters an accepted link: another id, or one character of the
\* signature replaced, by the same letter in the other case or by another
\* character
SigTamper ==
    /\ sig_pc \in {"checked", "mailed_checked"}
    /\ sig_accept
    /\ \/ /\ sig_id' \in (1..MaxSignId) \ {sig_id}
          /\ sig_sign' = sig_sign
          /\ sig_pc' = "tampered_id"
       \/ \E i \in 1..Len(sig_sign) : \E ch \in SignAlphabet \ {sig_sign[i]} :
             /\ sig_sign' = [sig_sign EXCEPT ![i] = ch]
             /\ sig_id' = sig_id
             /\ sig_pc' = IF FoldCase(ch) = FoldCase(sig_sign[i])
                          THEN "tampered_case" ELSE "tampered_char"
    /\ UNCHANGED sig_accept
    /\ UNCHANGED <<linkVars, adpVars, regVars, urlVars, rstVars>>

\* emailconfirm checks the altered link (lines 197-204)
SigRecheck ==
    /\ sig_pc \in {"tampered_id", "tampered_case", "tampered_char"}
    /\ sig_accept' = SignatureOk(sig_id, sig_sign)
    /\ sig_pc' = CASE sig_pc = "tampered_id" -> "rechecked_id"
                    [] sig_pc = "tampered_case" -> "rechecked_case"
                    [] sig_pc = "tampered_char" -> "rechecked_char"
    /\ UNCHANGED <<sig_id, sig_sign>>
    /\ UNCHANGED <<linkVars, adpVars, regVars, urlVars, rstVars>>

SigNext == SigIssue \/ SigCheck \/ SigTamper \/ SigRecheck

SigSpec == SigInit /\ [][SigNext]_vars

----------------------------------------------------------------------------
(* Properties *)

SameIgnoringCase(s, t) ==
    /\ Len(s) = Len(t)
    /\ \A i \in 1..Len(s) : FoldCase(s[i]) = FoldCase(t[i])

ExpectedDigest(id) == Digest[id]

ValidLink(id, sign) == SameIgnoringCase(sign, ExpectedDigest(id))

\* the request of worker c ends with this step
Ends(c) == pc[c] # "idle" /\ pc'[c] = "idle"

\* C1: at any moment at most one LocalAccount carries a given e-mail address,
\* whatever the interleaving of authorize callbacks and emailconfirm visits
\* that carry it.
C1_OneAccountPerEmail ==
    \A a \in accounts, b \in accounts : a.email = b.email => a = b

\* C2: at any moment at most one OAuthUser row exists for a given
\* (type, openid), whatever the interleaving of the authorize callbacks for it.
C2_OneRowPerIdentity ==
    \A u \in oauthusers, v \in oauthusers :
        (u.type = v.type /\ u.openid = v.openid) => u = v

\* C4: an emailconfirm visit whose signature is empty or does not equal the
\* expected digest is answered 403; it changes no OAuthUser and no
\* LocalAccount, links nothing, logs nobody in and sends no mail.  (The steps
\* that start a request and answer 403, 404 or pass on are the only ones an
\* emailconfirm visit can be.)
C4_BadSignatureRejected ==
    [][\A c \in Workers :
          (/\ pc[c] = "idle"
           /\ pc'[c] \in {"idle", "ec_tx"}
           /\ nreq' = nreq + 1
           /\ resp'.status \in {0, 403, 404})
             => \A id \in 1..nextOAuthId : \A sign \in SignChoices :
                   (EmailConfirmVisit(c, id, sign) /\ ~ValidLink(id, sign))
                      => /\ resp'.status = 403
                         /\ resp'.login = 0
                         /\ pc'[c] = "idle"
                         /\ UNCHANGED <<oauthusers, accounts, outbox, nmail>>]_vars

\* a link was mailed and a visit with a wrong signature has just been refused
C4_Witness ==
    /\ resp.status = 403
    /\ \E m \in outbox : m.kind = "confirm"

\* C5: the signature mailed for identity id is
\* sha256(SECRET_KEY + str(id) + SECRET_KEY); emailconfirm accepts a signature
\* exactly when it equals that digest up to the case of its letters, so the
\* mailed signature is accepted.
C5_SignatureCheck ==
    /\ sig_pc \in {"mailed", "mailed_checked"} => sig_sign = ExpectedDigest(sig_id)
    /\ sig_pc \in {"checked", "mailed_checked"} =>
           (sig_accept <=> ValidLink(sig_id, sig_sign))
    /\ sig_pc = "mailed_checked" => sig_accept

\* a signature that differs from the digest in the case of a letter is accepted
C5_Witness ==
    /\ sig_pc = "checked"
    /\ sig_accept
    /\ sig_sign # ExpectedDigest(sig_id)

\* the rows of the identity a callback in progress is about
RowsOf(table, user) == {u \in table : u.type = user.type /\ u.openid = user.openid}

\* C3: an identity whose provider profile carries no e-mail is never linked by
\* an authorize callback: a callback with such a profile never turns a row
\* without linked account into one with a linked account, so the only way to
\* LINKED is the form followed by a valid emailconfirm visit.
C3_NoEmailNeverLinkedByCallback ==
    [][\A c \in Workers :
          (loc[c].op = "authorize" /\ loc[c].profile_email = NoEmail /\ Ends(c))
             => \A u \in RowsOf(oauthusers', loc[c].user) :
                   u.author_id # 0
                      => \E v \in oauthusers : v.id = u.id /\ v.author_id # 0]_vars

\* the host a redirect leads to is the site's own, with or without "www."
SameSite(host) ==
    \/ host = <<>>
    \/ host = SiteDomain
    \/ host = Www \o SiteDomain
    \/ Www \o host = SiteDomain

\* the return path a redirect carries: next_url inside an authorization URL,
\* the location itself otherwise
ReturnPath(location) ==
    IF Len(location) >= 2 /\ location[2] = "&next_url="
    THEN SubSeq(location, 3, Len(location))
    ELSE location

\* C6: the validated return path is a path of the site itself: no redirect
\* issued after validation leads to a host other than the site's own.
C6_NoOffSiteRedirect ==
    resp.status = 302 => SameSite(UrlNetloc(ReturnPath(resp.location)))

\* C7: a callback for an identity not stored yet whose profile carries e-mail e
\* ends with a session for a LocalAccount with e-mail e, exactly one OAuthUser
\* for the (type, openid), linked to that account, exactly one LocalAccount with
\* e-mail e, and a redirect to the validated return path.
C7_FirstCallbackWithEmail ==
    [][\A c \in Workers :
          (/\ loc[c].op = "authorize"
           /\ loc[c].found = 0
           /\ loc[c].profile_email # NoEmail
           /\ Ends(c))
             => LET rows == RowsOf(oauthusers', loc[c].user)
                    accts == {a \in accounts' : a.email = loc[c].profile_email}
                IN  /\ resp'.status = 302
                    /\ resp'.location = loc[c].nexturl
                    /\ Cardinality(accts) = 1
                    /\ Cardinality(rows) = 1
                    /\ \A a \in accts : resp'.login = a.id
                    /\ \A u \in rows : u.author_id = resp'.login]_vars

\* C8: a callback whose profile carries no e-mail, for an identity that is not
\* linked, stores the identity with no e-mail and no linked account, creates no
\* LocalAccount, logs nobody in and redirects to /oauth/requireemail/<id>.html
\* with the id of the stored row.
C8_CallbackWithoutEmail ==
    [][\A c \in Workers :
          /\ (pc[c] = "idle" /\ nreq' = nreq + 1 /\ resp'.status \in {0, 500})
                => \A type \in EnabledTypes : \A prof \in ProviderProfiles :
                   \A nu \in NextUrls :
                      (/\ AuthorizeCallback(c, type, "ok", prof, nu)
                       /\ prof.email = NoEmail
                       /\ \A u \in UsersBy(type, prof.openid) : u.author_id = 0)
                         => pc'[c] # "idle"
          /\ (/\ loc[c].op = "authorize"
              /\ loc[c].profile_email = NoEmail
              /\ loc[c].user.author_id = 0
              /\ Ends(c))
                => /\ resp'.status = 302
                   /\ resp'.login = 0
                   /\ accounts' = accounts
                   /\ \E u \in RowsOf(oauthusers', loc[c].user) :
                         /\ u.email = NoEmail
                         /\ u.author_id = 0
                         /\ resp'.location = RequireEmailUrl(u.id)]_vars

\* C9: after a callback without e-mail and the submission of e-mail e on the
\* form, a visit of the confirmation link with the valid signature ends with a
\* session, the identity linked to a LocalAccount whose e-mail is e, and a
\* redirect to /oauth/bindsuccess/<id>.html?type=success.
C9_ConfirmationLinks ==
    [][\A c \in Workers :
          (/\ loc[c].op = "emailconfirm"
           /\ loc[c].user.author_id = 0
           /\ loc[c].user.email # NoEmail
           /\ Ends(c))
             => /\ resp'.status = 302
                /\ resp'.location = BindSuccessUrl(loc[c].link_id, "success")
                /\ \E a \in accounts' :
                      /\ a.email = loc[c].user.email
                      /\ resp'.login = a.id
                      /\ \E u \in oauthusers' :
                            u.id = loc[c].link_id /\ u.author_id = a.id]_vars

\* C10: a repeat callback for an identity that is already linked creates no
\* LocalAccount and no OAuthUser, refreshes the stored display name and
\* establishes a session for the account the identity is linked to; the link is
\* left as it was.
C10_RepeatCallback ==
    [][\A c \in Workers :
          /\ (pc[c] = "idle" /\ nreq' = nreq + 1 /\ resp'.status \in {0, 500})
                => \A type \in EnabledTypes : \A prof \in ProviderProfiles :
                   \A nu \in NextUrls :
                      (/\ AuthorizeCallback(c, type, "ok", prof, nu)
                       /\ \E u \in UsersBy(type, prof.openid) : u.author_id # 0)
                         => pc'[c] = "auth_tx"
          /\ (/\ loc[c].op = "authorize"
              /\ loc[c].user.author_id # 0
              /\ Ends(c))
                => /\ resp'.status = 302
                   /\ resp'.login = loc[c].user.author_id
                   /\ accounts' = accounts
                   /\ {u.id : u \in oauthusers'} = {u.id : u \in oauthusers}
                   /\ \A u \in oauthusers' :
                         u.id = loc[c].user.id
                            => /\ u.nickname = loc[c].user.nickname
                               /\ u.author_id = loc[c].user.author_id]_vars

\* C12: LINKED is terminal and reached only by transition 1 or 4: no step
\* changes or clears the linked account of a row that has one, and a row gets
\* a linked account only in a callback whose profile carries an e-mail or in an
\* emailconfirm visit.
C12_LinkedIsTerminal ==
    [][/\ \A u \in oauthusers :
             u.author_id # 0
                => \E v \in oauthusers' : v.id = u.id /\ v.author_id = u.author_id
       /\ \A v \in oauthusers' :
             (v.author_id # 0
              /\ \A u \in oauthusers : u.id = v.id => u.author_id = 0)
                => \E c \in Workers :
                      /\ Ends(c)
                      /\ \/ loc[c].op = "emailconfirm"
                         \/ loc[c].op = "authorize" /\ loc[c].profile_email # NoEmail]_vars

\* C13: a callback whose profile carries an e-mail links the identity and
\* logs in also when a row for the identity is already stored without e-mail
\* and without linked account.
C13_EmailCallbackLinksStoredRow ==
    [][\A c \in Workers :
          (/\ loc[c].op = "authorize"
           /\ loc[c].profile_email # NoEmail
           /\ loc[c].found # 0
           /\ loc[c].user.email = NoEmail
           /\ loc[c].user.author_id = 0
           /\ Ends(c))
             => /\ resp'.status = 302
                /\ resp'.login # 0
                /\ \E u \in oauthusers' :
                      u.id = loc[c].found /\ u.author_id = resp'.login]_vars

\* C14: whenever the linker creates a LocalAccount, in authorize or in
\* emailconfirm, the username it assigns is the username of no existing
\* LocalAccount and the creation does not fail.
C14_UniqueUsername ==
    [][\A c \in Workers :
          (/\ pc[c] \in {"auth_create", "ec_create"}
           /\ pc'[c] # pc[c]
           /\ loc[c].user.email # NoEmail)
             => /\ pc'[c] \in {"auth_link", "ec_link"}
                /\ loc'[c].created
                /\ \A a \in accounts : a.username # loc'[c].author.username]_vars

----------------------------------------------------------------------------
(* Failures of the provider calls *)

\* a step that starts a request on worker c
RequestStarted(c) == pc[c] = "idle" /\ nreq' = nreq + 1

\* worker c's step is the callback whose token endpoint answers trsp (and
\* weibo's first profile fetch prsp1), with next_url nu
FailedExchange(c, type, trsp, prsp1, nu) ==
    ProviderCallback(c, type, trsp, prsp1, "profile", "profile", NoProfile, nu)

\* the step ends the request of worker c and leaves both tables and the
\* session as they were
NothingStored(c) == pc'[c] = "idle" /\ UNCHANGED dbVars /\ resp'.login = 0

\* C16 (as the code has it): when the token exchange raises
\* OAuthAccessTokenException, authorize logs it and redirects to '/'; when it
\* raises any other exception or returns nothing, authorize redirects back to
\* the provider authorization URL with the validated next_url.  Nothing is
\* stored in either case.
C16_TokenFailureRedirects ==
    [][\A c \in Workers :
          RequestStarted(c)
             => \A type \in apps, tok \in {"denied", "error"}, nu \in NextUrls :
                   AuthorizeCallback(c, type, tok, NoProfile, nu)
                      => /\ resp'.status = 302
                         /\ NothingStored(c)
                         /\ resp'.location
                               = IF tok = "denied" THEN <<"/">>
                                 ELSE AuthorizationUrl(type, get_redirecturl(nu))]_vars

\* a callback whose token exchange raised OAuthAccessTokenException was
\* answered with the redirect to '/'
C16_Witness ==
    /\ apps = Providers
    /\ resp.log = "OAuthAccessTokenException"
    /\ resp.status = 302
    /\ resp.location = <<"/">>
    /\ code = "c1"

\* C16 (as stated): when the token exchange raises OAuthAccessTokenException,
\* authorize redirects back to the provider authorization URL for a retry.
C16_RetryOnTokenException ==
    [][\A c \in Workers :
          RequestStarted(c)
             => \A type \in apps, nu \in NextUrls :
                   AuthorizeCallback(c, type, "denied", NoProfile, nu)
                      => RetryRedirect(resp', type)]_vars

\* the last response sent the browser to a provider's authorization page
Retrying == \E type \in Providers : RetryRedirect(resp, type)

\* C17: the retry after a failed token exchange is bounded: when every token
\* exchange of a login attempt fails and every redirect is followed, a
\* response that is not a retry redirect comes after finitely many retry
\* redirects.
C17_RetryBounded == Retrying ~> ~Retrying

\* the answers of a token endpoint that carry no access_token
TokenLess == {"empty", "garbage", "no_token"}

\* C18: for each of the five providers get_access_token_by_code raises
\* OAuthAccessTokenException whenever the answer of the token endpoint has no
\* access_token, and the callback then creates or updates no record.
C18_NoTokenRaises ==
    [][\A c \in Workers :
          RequestStarted(c)
             => \A type \in Providers, trsp \in TokenLess, nu \in NextUrls :
                   FailedExchange(c, type, trsp, "profile", nu)
                      => /\ resp'.log = "OAuthAccessTokenException"
                         /\ NothingStored(c)]_vars

\* C19: a callback for an enabled provider whose token answer carries no
\* access_token redirects to '/', establishes no session and stores nothing.
C19_NoTokenRedirectsHome ==
    [][\A c \in Workers :
          RequestStarted(c)
             => \A type \in apps, trsp \in TokenLess, nu \in NextUrls :
                   FailedExchange(c, type, trsp, "profile", nu)
                      => /\ resp'.status = 302
                         /\ resp'.location = <<"/">>
                         /\ NothingStored(c)]_vars

\* the answers of a profile or openid endpoint that are no profile: an error
\* response, an unparsable body, a body with a field missing
ProfileFailures == {"empty", "garbage", "missing_field"}

\* the token exchange of provider type succeeded and a fetch on the way to
\* the profile failed: weibo's fetch inside the token exchange (prsp1), QQ's
\* openid resolution (orsp) or the profile fetch of authorize (prsp)
FetchFailed(type, prsp1, orsp, prsp) ==
    \/ type = "weibo" /\ prsp1 \in ProfileFailures
    \/ type = "qq" /\ orsp \in ProfileFailures
    \/ prsp \in ProfileFailures

\* C20: when the token endpoint hands out a token but the profile fetch
\* fails, the callback (here without next_url) ends with a redirect to the
\* home page, stores nothing and establishes no session, for every provider.
C20_ProfileFailureRedirectsHome ==
    [][\A c \in Workers :
          RequestStarted(c)
             => \A type \in Providers :
                \A prsp1 \in ProfileFailures \cup {"profile"} :
                \A orsp \in ProfileFailures \cup {"profile"} :
                \A prsp \in ProfileFailures \cup {"profile"} :
                   (/\ FetchFailed(type, prsp1, orsp, prsp)
                    /\ ProviderCallback(c, type, "token", prsp1, orsp, prsp, NoProfile, <<>>))
                      => /\ resp'.status = 302
                         /\ resp'.location = <<"/">>
                         /\ NothingStored(c)]_vars

\* C15: a callback, e-mail form submission or confirmation visit that fails
\* with an error, a failure of the mail dispatch or of the session
\* establishment included, leaves the OAuthUser and LocalAccount tables
\* exactly as they were before the request (requests served one at a time).
C15_ErrorsLeaveTablesUnchanged ==
    [][\A c \in Workers :
          (Ends(c) /\ resp'.status = 500)
             => oauthusers' = oauthusers /\ accounts' = accounts]_vars

----------------------------------------------------------------------------
(* Provider registry, e-mail form and confirmation links *)

\* type parameters that name no enabled provider: missing, a provider that
\* is not enabled, a name no manager class carries
RefusedTypes == (TypeParams \cup {"myspace"}) \ apps

\* what a token exchange can end in, as authorize sees it
TokenOutcomes == {"denied", "error", "ok"}

\* the step ends worker c's request with a redirect to '/': no row, no
\* account, no session and no message
SentHome(c) ==
    /\ resp'.status = 302
    /\ resp'.location = <<"/">>
    /\ NothingStored(c)
    /\ outbox' = outbox

\* C21: when the type parameter is missing or names no enabled provider,
\* oauthlogin and authorize redirect to '/' whatever the provider would
\* answer, touch no record and establish no session.
C21_RefusedTypeSentHome ==
    [][\A c \in Workers :
          RequestStarted(c)
             => \A type \in RefusedTypes, nu \in NextUrls :
                   /\ OAuthLoginRequest(c, type, nu) => SentHome(c)
                   /\ \A tok \in TokenOutcomes, prof \in ProviderProfiles \cup {NoProfile} :
                         AuthorizeCallback(c, type, tok, prof, nu) => SentHome(c)]_vars

\* with no provider enabled a request for weibo was answered with the
\* redirect to '/'
C21_Witness ==
    /\ apps = {}
    /\ nreq > 0
    /\ resp.status = 302
    /\ resp.location = <<"/">>
    /\ resp.login = 0
    /\ oauthusers = {}


\* C22: the submission of a well-formed address e on the form of an identity X
\* that has no e-mail and no linked account stores e on X, hands exactly one
\* message to send_email, addressed to e, whose link carries the id of X and
\* a signature emailconfirm accepts for X; it creates no LocalAccount, leaves X
\* without linked account, logs nobody in and redirects to
\* /oauth/bindsuccess/<id>.html?type=email.
C22_EmailSubmission ==
    [][\A c \in Workers :
          (/\ loc[c].op = "requireemail"
           /\ loc[c].user.email = NoEmail
           /\ loc[c].user.author_id = 0
           /\ Ends(c))
             => LET X == loc[c].user.id
                    e == loc[c].profile_email
                IN  /\ \E u \in oauthusers' :
                          u.id = X /\ u.email = e /\ u.author_id = 0
                    /\ \A u \in oauthusers' : u.id = X => u.email = e
                    /\ nmail' = nmail + 1
                    /\ \E m \in outbox' :
                          /\ m.to = e
                          /\ m.kind = "confirm"
                          /\ m.id = X
                          /\ ValidLink(X, m.sign)
                          /\ outbox' \ outbox \subseteq {m}
                    /\ accounts' = accounts
                    /\ resp'.login = 0
                    /\ resp'.status = 302
                    /\ resp'.location = BindSuccessUrl(X, "email")]_vars

\* the form of an identity without e-mail was submitted: the address is
\* stored, the link is in the mail and the row is still not linked
C22_Witness ==
    \E u \in oauthusers :
        /\ u.email # NoEmail
        /\ u.author_id = 0
        /\ resp.status = 302
        /\ resp.location = BindSuccessUrl(u.id, "email")
        /\ \E m \in outbox : m.id = u.id /\ m.to = u.email /\ ValidLink(u.id, m.sign)

\* C23: the submission of a malformed address on the form of a stored identity
\* renders the form again and changes nothing: no OAuthUser and no
\* LocalAccount changes, so the stored e-mail stays and nothing is linked, no
\* message is handed to send_email and nobody is logged in.
C23_MalformedEmailChangesNothing ==
    [][\A c \in Workers :
          RequestStarted(c)
             => \A urlid \in {u.id : u \in oauthusers}, oauthid \in 0..nextOAuthId :
                \A email \in MalformedEmails :
                   RequireEmailSubmit(c, urlid, oauthid, email)
                      => /\ resp'.status = 200
                         /\ NothingStored(c)
                         /\ outbox' = outbox
                         /\ nmail' = nmail]_vars

\* the form of a stored identity was rendered again
C23_Witness ==
    /\ resp.status = 200
    /\ \E u \in oauthusers : u.email = NoEmail /\ u.author_id = 0

\* the response HttpResponseForbidden() of worker c: no body, no Location, no
\* session, no log line
GenericForbidden(c) ==
    [worker |-> c, status |-> 403, location |-> <<>>, login |-> 0, log |-> ""]

\* C24: the response of emailconfirm to a link with an invalid signature does
\* not depend on whether an OAuthUser with the link's id is stored: whatever
\* id the link names, with a row (UsersById(id) # {}) or without one, the
\* answer is the same generic 403, so a visitor without a valid signature
\* cannot probe which identities exist.
C24_ForbiddenHidesExistence ==
    [][\A c \in Workers :
          RequestStarted(c)
             => \A id \in 1..nextOAuthId, sign \in SignChoices :
                   (EmailConfirmVisit(c, id, sign) /\ ~ValidLink(id, sign))
                      => resp' = GenericForbidden(c)]_vars

\* a link was answered 403 although no identity is stored at all, so the id
\* it named has no row
C24_Witness ==
    /\ resp.status = 403
    /\ oauthusers = {}

\* a visit of the link of identity id was accepted before: its notification
\* was handed to send_email
Visited(id) == \E m \in outbox : m.kind = "success" /\ m.id = id

\* C25: a confirmation link that was accepted once is accepted again, whenever
\* it is visited: the visit ends with the redirect to the success page and a
\* session for the LocalAccount the identity is linked to, it creates no
\* further LocalAccount and leaves the identity's linked account as it is.
C25_LinkReusable ==
    [][\A c \in Workers :
          (/\ loc[c].op = "emailconfirm"
           /\ Visited(loc[c].link_id)
           /\ Ends(c))
             => /\ resp'.status = 302
                /\ resp'.location = BindSuccessUrl(loc[c].link_id, "success")
                /\ accounts' = accounts
                /\ \A u \in oauthusers : u.id = loc[c].link_id
                      => /\ u.author_id # 0
                         /\ resp'.login = u.author_id
                         /\ \E w \in oauthusers' :
                               w.id = u.id /\ w.author_id = u.author_id]_vars

\* C26 as stated: from an accepted link, another id or any single replaced
\* character of the signature gives a link that is rejected.
C26_AnyChangeRejected ==
    sig_pc \in {"rechecked_id", "rechecked_char", "rechecked_case"} => ~sig_accept

\* C26: from an accepted link, another id gives a rejected link, and so does
\* one character of the signature replaced by anything but the same letter in
\* the other case; a letter replaced by its other case leaves the link
\* accepted, because both sides of the comparison are upper-cased.
C26_TamperedLinkRejected ==
    /\ sig_pc \in {"rechecked_id", "rechecked_char"} => ~sig_accept
    /\ sig_pc = "rechecked_case" => sig_accept

\* a link whose signature had one character replaced by another one was
\* checked and refused
C26_Witness ==
    /\ sig_pc = "rechecked_char"
    /\ ~sig_accept

\* C27: over a whole authorize request that logs somebody in, the adapter
\* makes exactly three outbound calls for QQ (token, openid, profile) and
\* exactly two (token, profile) for weibo, google, github and facebook.
C27_OutboundCalls ==
    adp_pc = "login"
       => adp_calls = IF adp_type = "qq" THEN <<"token", "openid", "profile">>
                      ELSE <<"token", "profile">>

C29_AuthorizationUrl ==
    url_pc = "url"
       => LET query == SubSeq(url_out, 3, Len(url_out))
          IN  /\ url_out[1] = AUTH_URL[url_in.type]
              /\ url_out[2] = "?"
              /\ QueryValue(query, "client_id") = url_in.appkey
              /\ QueryValue(query, "response_type") = <<"code">>
              /\ StartsWith(QueryValue(query, "redirect_uri"), url_in.callback_url)

\* the URL of a manager that appends the return path to the callback URL was
\* built for a return path with a query of its own
C29_Witness ==
    /\ url_pc = "url"
    /\ url_in.type = "qq"
    /\ Len(url_in.nexturl) > 1
    /\ "&" \in {url_in.callback_url[i] : i \in 1..Len(url_in.callback_url)}
    /\ Len(QueryValue(SubSeq(url_out, 3, Len(url_out)), "redirect_uri"))
          > Len(url_in.callback_url)

\* the submitted address belongs to an account and the submitted code is the
\* one set_code stored last for the address, less than 5 minutes ago
ResetAllowed(email, vcode) ==
    /\ \E u \in rst_users : u.email = email
    /\ email \in Emails
    /\ rst_codes[email].set
    /\ rst_codes[email].code = vcode
    /\ rst_time < rst_codes[email].at + CodeTtl

\* C30: a submission of the password-reset form changes a password only when
\* the submitted address belongs to an account and the submitted code is the
\* one stored last for that address and not expired, and then only the
\* password of an account with that address; with an unknown address, a wrong
\* code, an expired code or no stored code every password stays as it is and
\* the response is no redirect to the login page.  No other request changes
\* a password.
C30_ResetNeedsCode ==
    [][/\ \A password1 \in Passwords, password2 \in Passwords :
          \A email \in FormEmails, vcode \in VerifyCodes :
             ForgetPassword(password1, password2, email, vcode)
                => /\ ResetAllowed(email, vcode)
                      \/ (rst_users' = rst_users /\ rst_resp'.location # "/login/")
                   /\ \A u \in rst_users : u \notin rst_users' => u.email = email
       /\ rst_users' # rst_users
             => \E password1 \in Passwords, password2 \in Passwords :
                \E email \in FormEmails, vcode \in VerifyCodes :
                   ForgetPassword(password1, password2, email, vcode)]_vars

\* a password was reset, and the code that allowed it has expired since
C30_Witness ==
    /\ rst_resp.location = "/login/"
    /\ \E u \in rst_users :
          /\ u.password # OldPassword
          /\ rst_codes[u.email].set
          /\ rst_time >= rst_codes[u.email].at + CodeTtl

\* C31: a callback for an identity that already has a stored OAuthUser row
\* refreshes, besides display name, avatar URL and raw profile, also the
\* stored access token: when the callback has saved the row, its token is the
\* token obtained in this callback.
C31_TokenRefreshed ==
    [][\A c \in Workers :
          (/\ loc[c].op = "authorize"
           /\ loc[c].found # 0
           /\ Ends(c)
           /\ resp'.status = 302)
             => \A u \in oauthusers' :
                   u.id = loc[c].found
                      => /\ u.nickname = loc[c].user.nickname
                         /\ u.picture = PictureOf(loc[c].user.nickname)
                         /\ u.metadata = MetadataOf(loc[c].user.nickname)
                         /\ u.token = TokenOf(loc[c].user.nickname)]_vars

\* C32: when a callback carries e-mail e and a LocalAccount with e-mail e
\* exists already, the identity is linked to that account, the session is for
\* that account and no account is created; every other identity stored with
\* e-mail e that is linked is linked to the same account.
C32_LinkedToExistingAccount ==
    [][\A c \in Workers :
          (/\ loc[c].op = "authorize"
           /\ loc[c].profile_email # NoEmail
           /\ AccountsByEmail(loc[c].profile_email) # {}
           /\ Ends(c))
             => /\ accounts' = accounts
                /\ resp'.status = 302
                /\ \E a \in AccountsByEmail(loc[c].profile_email) :
                      /\ resp'.login = a.id
                      /\ \A u \in RowsOf(oauthusers', loc[c].user) : u.author_id = a.id
                      /\ \A v \in oauthusers' :
                            (v.email = loc[c].profile_email /\ v.author_id # 0)
                               => v.author_id = a.id]_vars

\* C33: adapter operations never persist anything.  get_authorization_url
\* makes no outbound call and changes neither the manager's token and openid
\* nor any store; get_access_token_by_code and get_oauth_userinfo change, of
\* the state, only the manager's own token and openid (and make their
\* outbound calls): no OAuthUser and no LocalAccount row is written, no id is
\* consumed and no mail is sent.
C33_AdaptersPersistNothing ==
    [][/\ (adp_pc = "retry" /\ adp_pc' = "redirect")
             => /\ adp_calls' = adp_calls
                /\ adp_self' = adp_self
                /\ UNCHANGED <<dbVars, outbox, nmail>>
       /\ (adp_pc \in {"code", "token"} /\ adp_pc' # adp_pc)
             => UNCHANGED <<dbVars, outbox, nmail>>]_vars

\* get_oauth_userinfo returned a user for QQ: the manager holds the token and
\* the openid it resolved, three calls went out and no row is stored
C33_Witness ==
    /\ adp_pc = "login"
    /\ adp_type = "qq"
    /\ adp_self = [access_token |-> "token", openid |-> "openid"]
    /\ Len(adp_calls) = 3
    /\ oauthusers = {}

\* C34: an identity waiting for its e-mail confirmation (an address was
\* submitted through the form and its link mailed, but no confirmation link
\* was visited) is never linked by a provider callback: a callback for it
\* leaves its linked account empty and establishes no session.
C34_PendingNotLinkedByCallback ==
    [][\A c \in Workers :
          (loc[c].op = "authorize" /\ Ends(c))
             => \A u \in oauthusers :
                   (/\ u.id = loc[c].found
                    /\ u.email # NoEmail
                    /\ u.author_id = 0
                    /\ Mailed(u.id)
                    /\ ~Visited(u.id))
                      => /\ resp'.login = 0
                         /\ \A v \in oauthusers' : v.id = u.id => v.author_id = 0]_vars

\* C37: a POST to /oauth/requireemail/<id>.html modifies only the identity the
\* URL names: the e-mail of no other OAuthUser changes, and every confirmation
\* link the request mails is one for identity <id>, whatever the oauthid field
\* of the form body says.
C37_PostTouchesUrlIdentityOnly ==
    [][\A c \in Workers :
          (loc[c].op = "requireemail" /\ Ends(c))
             => /\ \A u \in oauthusers :
                      u.id # loc[c].link_id
                         => \E v \in oauthusers' : v.id = u.id /\ v.email = u.email
                /\ \A m \in outbox' \ outbox :
                      m.kind = "confirm" /\ m.id = loc[c].link_id]_vars

\* C36: an e-mail form submission for an identity that is linked already
\* leaves the identity's stored e-mail and its linked account as they are.
C36_LinkedUnchangedByForm ==
    [][\A c \in Workers :
          (/\ loc[c].op = "requireemail"
           /\ Ends(c))
             => \A u \in oauthusers :
                   (u.id = loc[c].found /\ u.author_id # 0)
                      => \E v \in oauthusers' :
                            /\ v.id = u.id
                            /\ v.email = u.email
                            /\ v.author_id = u.author_id]_vars

----------------------------------------------------------------------------
(* The e-mail form and the confirmation link in the hands of a stranger
   (oauth/views.py) *)

\* the account of the owner of identity 1, created by the owner's callback
OwnerAccount == [id |-> 1, username |-> "n1", email |-> "e1", source |-> "authorize"]

\* identity 1 as the owner's callback with e-mail e1 stored and linked it
OwnerUser ==
    [AuthorizeUser("weibo", [openid |-> "o1", nickname |-> "n1", email |-> "e1"], {}, 0)
        EXCEPT !.id = 1, !.author_id = OwnerAccount.id]

\* identity 2 as a callback without e-mail stored it
WaitingUser ==
    [AuthorizeUser("weibo", [openid |-> "o2", nickname |-> "n1", email |-> NoEmail], {}, 0)
        EXCEPT !.id = 2]

\* the address at which the stranger receives mail; it is not the address of
\* the owner's account
StrangerEmail == "e2"

\* a server with one worker after two callbacks: identity 1 is linked to the
\* owner's account, identity 2 has no e-mail; nothing was mailed
StrangerInit ==
    /\ workers = {1}
    /\ apps = EnabledTypes
    /\ code = "c1"
    /\ oauthusers = {OwnerUser, WaitingUser}
    /\ accounts = {OwnerAccount}
    /\ nextOAuthId = 3
    /\ nextUserId = 2
    /\ outbox = {}
    /\ nmail = 0
    /\ clock = 0
    /\ pc = [c \in Workers |-> "idle"]
    /\ loc = [c \in Workers |-> NoLocals]
    /\ resp = NoResponse
    /\ nreq = 0
    /\ SideIdle

\* the stranger posts the e-mail form for any identity, with the own address
\* or a malformed one (RequireEmailView has no check of who posts)
StrangerPost(c) ==
    \E urlid \in 1..nextOAuthId, oauthid \in 0..nextOAuthId :
    \E email \in {StrangerEmail} \cup MalformedEmails :
        RequireEmailSubmit(c, urlid, oauthid, email)

\* the signatures the stranger can present: those of the links mailed to the
\* stranger's address, as mailed or in upper case, and two that no link carries
StrangerSigns ==
    {m.sign : m \in {n \in outbox : n.kind = "confirm" /\ n.to = StrangerEmail}}
    \cup {StrUpper(m.sign) : m \in {n \in outbox : n.kind = "confirm" /\ n.to = StrangerEmail}}
    \cup {<<>>, <<"z", "z">>}

\* the stranger opens an emailconfirm URL for any id
StrangerVisit(c) ==
    \E id \in 1..nextOAuthId, sign \in StrangerSigns : EmailConfirmVisit(c, id, sign)

\* only the stranger sends requests: no provider callback is made
StrangerNext ==
    \/ \E c \in Workers : StrangerPost(c)
    \/ \E c \in Workers : RequireEmailSave(c)
    \/ \E c \in Workers : StrangerVisit(c)
    \/ \E c \in Workers : EmailConfirmResolve(c)
    \/ \E c \in Workers : EmailConfirmCreate(c)
    \/ \E c \in Workers : EmailConfirmLink(c)

StrangerSpec == StrangerInit /\ [][StrangerNext]_vars

\* C35: a requester who never completed a provider callback as identity X and
\* does not control the e-mail address of the account X is linked to obtains
\* no session for that account through the e-mail form and the confirmation
\* link, also when the requester knows the id of X and receives mail at an
\* address of the requester's choosing.
C35_NoSessionForStranger ==
    resp.login # OwnerAccount.id

----------------------------------------------------------------------------
(* emailconfirm: the commit and the login after it (oauth/views.py) *)

\* emailconfirm, lines 223-225: oauthuser.author = author; oauthuser.save();
\* the block of transaction.atomic() ends and the transaction commits.
\* login(request, author) is the next statement, outside the block
EmailConfirmCommit(c) ==
    LET v == loc[c]
        user == [v.user EXCEPT !.author_id = v.author.id]
    IN  /\ pc[c] = "ec_link"
        /\ accounts' = IF v.created THEN accounts \cup {v.author} ELSE accounts
        /\ oauthusers' = SaveUser(oauthusers, user, nextOAuthId)
        /\ Goto(c, "ec_login", [v EXCEPT !.user = user, !.created = FALSE])
        /\ UNCHANGED <<nextOAuthId, nextUserId, outbox, nmail, clock, nreq>>

\* emailconfirm, lines 227-253: login(request, author), the notification is
\* mailed and the request ends with the redirect to the success page
EmailConfirmLogin(c) ==
    LET v == loc[c]
    IN  /\ pc[c] = "ec_login"
        /\ outbox' = outbox \cup {[to |-> v.user.email, kind |-> "success",
                                    id |-> v.user.id, sign |-> <<>>]}
        /\ nmail' = nmail + 1
        /\ Respond(c, LoginRedirect(BindSuccessUrl(v.link_id, "success"), v.author.id))
        /\ UNCHANGED <<dbVars, clock, nreq>>

\* a server with two workers on a database in which a callback without
\* e-mail stored identity 1
WaitingInit ==
    /\ workers = Workers
    /\ apps = EnabledTypes
    /\ code = "c1"
    /\ oauthusers = {[PendingUser EXCEPT !.email = NoEmail]}
    /\ accounts = {}
    /\ nextOAuthId = 2
    /\ nextUserId = 1
    /\ outbox = {}
    /\ nmail = 0
    /\ clock = 0
    /\ pc = [c \in Workers |-> "idle"]
    /\ loc = [c \in Workers |-> NoLocals]
    /\ resp = NoResponse
    /\ nreq = 0
    /\ SideIdle

\* the requests of the linking state machine, with the end of emailconfirm
\* in the two steps the code takes
LateLoginNext ==
    \/ \E c \in Workers : OAuthLogin(c)
    \/ \E c \in Workers : AuthorizeStart(c)
    \/ \E c \in Workers : AuthorizeResolve(c)
    \/ \E c \in Workers : AuthorizeCreate(c)
    \/ \E c \in Workers : AuthorizeLink(c)
    \/ \E c \in Workers : AuthorizeSaveNoEmail(c)
    \/ \E c \in Workers : RequireEmailPost(c)
    \/ \E c \in Workers : RequireEmailSave(c)
    \/ \E c \in Workers : EmailConfirmStart(c)
    \/ \E c \in Workers : EmailConfirmResolve(c)
    \/ \E c \in Workers : EmailConfirmCreate(c)
    \/ \E c \in Workers : EmailConfirmCommit(c)
    \/ \E c \in Workers : EmailConfirmLogin(c)

LateLoginSpec == WaitingInit /\ [][LateLoginNext]_vars

\* C38: whenever authorize or emailconfirm establishes a session on behalf of
\* identity X, the session's account is the account stored as X's linked
\* account when the request ends; so no session is established for an
\* identity whose linked account is empty.
C38_SessionMatchesLink ==
    [][\A c \in Workers :
          (/\ loc[c].op \in {"authorize", "emailconfirm"}
           /\ Ends(c)
           /\ resp'.login # 0)
             => LET X == IF loc[c].op = "emailconfirm" THEN loc[c].link_id
                         ELSE SavedId(loc[c].user, nextOAuthId)
                IN  /\ \E u \in oauthusers' : u.id = X
                    /\ \A u \in oauthusers' : u.id = X => u.author_id = resp'.login]_vars

============================================================================
